---- MODULE Spec2Model ----
(***************************************************************************)
(* A model of banana, a command-line client for a generative image API:    *)
(* the model registry, the session store (readSession,                     *)
(* validateSessionFile, loadSession, sessionPath), the collision rules of  *)
(* a generation run (validatePaths, run), the cleanup scanner (runClean),  *)
(* the PNG text codec (pngSetText, pngGetText), the embedded metadata      *)
(* (buildMetadata, embedMetadata, runMeta) and the cost analyzer           *)
(* (analyzeSession, runCost).                                              *)
(*                                                                         *)
(* File names are sequences of dot-separated segments ("out.png" is        *)
(* <<"out","png">>, "." is <<"","">>, ".." is <<"","","">>), a path is a   *)
(* rooted flag and a sequence of file names, and a session document on     *)
(* disk is the shape of its JSON text, which Decode turns into sessionData *)
(* the way encoding/json does.                                             *)
(***************************************************************************)
EXTENDS Naturals, Sequences, FiniteSets, TLC

VARIABLES
    fs,      \* the filesystem: location -> file (NoFile where nothing is)
    fs0,     \* the filesystem when the command started
    pc,      \* position of the running command
    cmd,     \* the subcommand and its parsed arguments
    loc,     \* the command's local variables
    ret,     \* what the command returned: [ok, msg]
    trace    \* the operations the command has asked of the OS, in order

vars == <<fs, fs0, pc, cmd, loc, ret, trace>>

(***************************************************************************)
(* Bounds                                                                  *)
(***************************************************************************)
\* longest history of a session document
MaxHist == 3
\* most chunks after the signature in a buffer given to the PNG codec
MaxChunks == 2
\* most -i paths in the options given to buildMetadata
MaxInputs == 2
\* most pngSetText calls made one after the other on a buffer
MaxSets == 2

(***************************************************************************)
(* Model registry.  Money is counted in units of 10^-8 USD: a price per   *)
(* million tokens of 0.30 USD is 30 units per token, an image price of     *)
(* 0.039 USD is 3900000 units.                                             *)
(***************************************************************************)
modelDefs ==
    [n \in {"flash-2.5", "flash-3.1", "pro-3.0"} |->
        [ID |-> CASE n = "flash-2.5" -> "gemini-2.5-flash-image"
                  [] n = "flash-3.1" -> "gemini-3.1-flash-image-preview"
                  [] OTHER -> "gemini-3-pro-image-preview",
         Family |-> IF n = "pro-3.0" THEN "pro" ELSE "flash",
         MaxInputImages |-> IF n = "flash-2.5" THEN 3 ELSE 14,
         Sizes |-> IF n = "flash-2.5" THEN <<"1K">> ELSE <<"1K", "2K", "4K">>,
         InputPerMTok |-> CASE n = "flash-2.5" -> 30
                            [] n = "flash-3.1" -> 25
                            [] OTHER -> 200,
         OutputPerMTok |-> CASE n = "flash-2.5" -> 60
                             [] n = "flash-3.1" -> 150
                             [] OTHER -> 1200,
         ImagePrices |->
             CASE n = "flash-2.5" -> [z \in {"1K"} |-> 3900000]
               [] n = "flash-3.1" ->
                      [z \in {"1K", "2K", "4K"} |->
                          CASE z = "1K" -> 6700000
                            [] z = "2K" -> 10100000
                            [] OTHER -> 15100000]
               [] OTHER ->
                      [z \in {"1K", "2K", "4K"} |->
                          IF z = "4K" THEN 24000000 ELSE 13400000]]]

modelAliases == [n \in {"flash", "pro"} |->
                    IF n = "flash" THEN "flash-3.1" ELSE "pro-3.0"]

\* modelDefs[name].Family, the zero value "" for a name the map lacks
FamilyOf(name) ==
    IF name \in DOMAIN modelDefs THEN modelDefs[name].Family ELSE ""

isKnownModel(name) ==
    \/ name \in DOMAIN modelDefs
    \/ name \in DOMAIN modelAliases

\* the names a session document or the -m flag may carry
ModelNames == {"", "flash", "pro", "flash-2.5", "flash-3.1", "pro-3.0", "turbo"}

(***************************************************************************)
(* Errors: a Go error is its message, a sequence of fragments; nil is      *)
(* [ok |-> TRUE].  A quoted path or a number in a message is the verb that *)
(* formats it; a model name is the name itself.                            *)
(***************************************************************************)
Nil == [ok |-> TRUE, msg |-> <<>>]
Errorf(m) == [ok |-> FALSE, msg |-> m]

\* a run-time panic ends the process: no value is returned
Panic == Errorf(<<"panic: nil pointer dereference">>)

Contains(m, s) == \E i \in 1..Len(m) : m[i] = s

(***************************************************************************)
(* Conversation history: genai.Content and genai.Part, as far as the       *)
(* session store looks at them.  A JSON null in the history array or in a  *)
(* parts array decodes to a nil pointer.                                   *)
(***************************************************************************)
Part(signed, kind) == [nil |-> FALSE, signed |-> signed, kind |-> kind]
NilPart == [nil |-> TRUE, signed |-> FALSE, kind |-> ""]
Content(role, parts) == [nil |-> FALSE, Role |-> role, Parts |-> parts]
NilContent == [nil |-> TRUE, Role |-> "", Parts |-> <<>>]

UserTurn == Content("user", <<Part(FALSE, "text")>>)
ModelTurnSigned == Content("model", <<Part(FALSE, "text"), Part(TRUE, "image")>>)
ModelTurnPlain == Content("model", <<Part(FALSE, "text"), NilPart>>)

\* the history entries a session document is built from
Turns == {UserTurn, ModelTurnSigned, ModelTurnPlain, NilContent}

SeqsUpTo(S, n) == UNION {[1..k -> S] : k \in 0..n}

Histories == SeqsUpTo(Turns, MaxHist)

\* a Go slice: nil, or a (possibly empty) sequence
NilSlice == [nil |-> TRUE, elems |-> <<>>]
Slice(s) == [nil |-> FALSE, elems |-> s]

(***************************************************************************)
(* Session documents.  The bytes of a file are modelled by the shape of    *)
(* the JSON text: whether it is well-formed, what its top-level value is,  *)
(* and for an object what its "model" and "history" members hold and       *)
(* whether it has a member outside the schema.                             *)
(***************************************************************************)
Absent == [k |-> "absent", v |-> ""]
JNull == [k |-> "null", v |-> ""]
Mistyped == [k |-> "mistyped", v |-> ""]
JString(s) == [k |-> "string", v |-> s]
HAbsent == [k |-> "absent", v |-> <<>>]
HNull == [k |-> "null", v |-> <<>>]
HMistyped == [k |-> "mistyped", v |-> <<>>]
HArray(h) == [k |-> "array", v |-> h]

\* the "usage" member: absent, null, of a non-object type, or an object
\* with its two counters (a counter the object lacks reads as 0)
UAbsent == [k |-> "absent", p |-> 0, c |-> 0]
UNull == [k |-> "null", p |-> 0, c |-> 0]
UMistyped == [k |-> "mistyped", p |-> 0, c |-> 0]
UObject(p, c) == [k |-> "object", p |-> p, c |-> c]

\* an object with all four members of the schema
JSession(m, s, h, u, e) ==
    [wf |-> TRUE, top |-> "object", model |-> m, size |-> s, history |-> h,
     usage |-> u, extra |-> e]
\* an object without "size" and "usage"
JObject(m, h, e) == JSession(m, Absent, h, UAbsent, e)
\* bytes that are not JSON at all, such as "{corrupt" or an image
BadSyntax ==
    [wf |-> FALSE, top |-> "other", model |-> Absent, size |-> Absent,
     history |-> HAbsent, usage |-> UAbsent, extra |-> FALSE]
\* the JSON text null
TopNull ==
    [wf |-> TRUE, top |-> "null", model |-> Absent, size |-> Absent,
     history |-> HAbsent, usage |-> UAbsent, extra |-> FALSE]
\* a JSON number, string, boolean or array at the top level
TopOther ==
    [wf |-> TRUE, top |-> "other", model |-> Absent, size |-> Absent,
     history |-> HAbsent, usage |-> UAbsent, extra |-> FALSE]

ModelValues == {Absent, JNull, Mistyped} \cup {JString(n) : n \in ModelNames}
HistoryValues ==
    {HAbsent, HNull, HMistyped} \cup {HArray(h) : h \in Histories}

RawDocs ==
    {BadSyntax, TopNull, TopOther}
    \cup {JObject(m, h, e) : m \in ModelValues, h \in HistoryValues,
                             e \in BOOLEAN}

\* *usageData: nil, or the two counters the cost analyzer reads
NilUsage == [nil |-> TRUE, PromptTokens |-> 0, CandidateTokens |-> 0]
usageData(p, c) == [nil |-> FALSE, PromptTokens |-> p, CandidateTokens |-> c]

sessionData(model, size, history, usage) ==
    [Model |-> model, Size |-> size, History |-> history, Usage |-> usage]
ZeroSession == sessionData("", "", NilSlice, NilUsage)

\* json.Unmarshal(raw, &sess): a syntax error for bytes that are not JSON, an
\* UnmarshalTypeError for a value of the wrong JSON type; null leaves the
\* target as it is, an unknown member is ignored, [] gives an empty non-nil
\* slice.
Unmarshal(raw) ==
    IF ~raw.wf THEN [err |-> "syntax", sess |-> ZeroSession]
    ELSE IF raw.top = "null" THEN [err |-> "", sess |-> ZeroSession]
    ELSE IF raw.top # "object" THEN [err |-> "type", sess |-> ZeroSession]
    ELSE IF "mistyped" \in {raw.model.k, raw.size.k, raw.history.k,
                            raw.usage.k}
         THEN [err |-> "type", sess |-> ZeroSession]
    ELSE [err |-> "",
          sess |-> sessionData(
              IF raw.model.k = "string" THEN raw.model.v ELSE "",
              IF raw.size.k = "string" THEN raw.size.v ELSE "",
              IF raw.history.k = "array" THEN Slice(raw.history.v)
                                         ELSE NilSlice,
              IF raw.usage.k = "object"
              THEN usageData(raw.usage.p, raw.usage.c) ELSE NilUsage)]

(***************************************************************************)
(* Files                                                                   *)
(***************************************************************************)
\* perm: "ok"; "unreadable" (os.Stat succeeds, os.ReadFile fails); "none" (no
\* such file); "noaccess" (os.Stat fails with an error other than
\* ErrNotExist); "dir"; "lockeddir" (a directory os.ReadDir cannot read)
File(perm, raw, size) == [perm |-> perm, raw |-> raw, size |-> size]
NoFile == File("none", BadSyntax, 0)

(***************************************************************************)
(* Session store                                                           *)
(***************************************************************************)
ReadResult(sess, size, err) == [sess |-> sess, size |-> size, err |-> err]

readSession_NoHistoryCheck(f, path) ==
    IF f.perm # "ok"
    THEN ReadResult(ZeroSession, 0, Errorf(<<"failed to read ", "%q">>))
    ELSE LET u == Unmarshal(f.raw) IN
         IF u.err # ""
         THEN ReadResult(ZeroSession, 0,
                         Errorf(<<"failed to parse ", "%q", u.err>>))
         ELSE ReadResult(u.sess, f.size, Nil)

readSession(f, path) ==
    IF f.perm # "ok"
    THEN ReadResult(ZeroSession, 0, Errorf(<<"failed to read ", "%q">>))
    ELSE LET u == Unmarshal(f.raw) IN
         IF u.err # ""
         THEN ReadResult(ZeroSession, 0,
                         Errorf(<<"failed to parse ", "%q", u.err>>))
         ELSE IF u.sess.History.nil
         THEN ReadResult(ZeroSession, 0,
                         Errorf(<<"%q", " is not a banana session">>))
         ELSE ReadResult(u.sess, f.size, Nil)

sessionInfo(model, turns, size) ==
    [Model |-> model, Turns |-> turns, Size |-> size]
ValidateResult(info, err) == [info |-> info, err |-> err]

validateSessionFile_NoModelCheck(f, path) ==
    LET r == readSession(f, path) IN
    IF ~r.err.ok
    THEN ValidateResult(sessionInfo("", 0, 0),
                        Errorf(<<"not a banana session: ">> \o r.err.msg))
    ELSE ValidateResult(
             sessionInfo(r.sess.Model, (Len(r.sess.History.elems) + 1) \div 2,
                         r.size),
             Nil)

validateSessionFile(f, path) ==
    LET r == readSession(f, path) IN
    IF ~r.err.ok
    THEN ValidateResult(sessionInfo("", 0, 0),
                        Errorf(<<"not a banana session: ">> \o r.err.msg))
    ELSE IF r.sess.Model # "" /\ ~isKnownModel(r.sess.Model)
    THEN ValidateResult(sessionInfo("", 0, 0),
                        Errorf(<<"unknown model ", r.sess.Model>>))
    ELSE ValidateResult(
             sessionInfo(r.sess.Model, (Len(r.sess.History.elems) + 1) \div 2,
                         r.size),
             Nil)

SelectSigned(parts) == SelectSeq(parts, LAMBDA p : ~p.nil /\ p.signed)

cleanContent_KeepAll(content) == content

\* one pass of the loop body: content.Parts = signed when a part is signed
cleanContent(content) ==
    IF content.Role # "model" THEN content
    ELSE IF SelectSigned(content.Parts) = <<>> THEN content
    ELSE [content EXCEPT !.Parts = SelectSigned(content.Parts)]

\* content.Role on a nil *genai.Content is a nil dereference
cleanHistoryForResume(history) ==
    IF \E i \in 1..Len(history.elems) : history.elems[i].nil
    THEN [panic |-> TRUE, history |-> NilSlice]
    ELSE [panic |-> FALSE,
          history |-> [history EXCEPT
              !.elems = [i \in 1..Len(history.elems) |->
                            cleanContent(history.elems[i])]]]

LoadResult(history, err, panic) ==
    [history |-> history, err |-> err, panic |-> panic]

Mismatch(declared, model) ==
    Errorf(<<"session was created with ", declared, " but -m is ", model,
             "; pass -m ", declared, " to continue this session">>)

loadSession_FamilyForAll(f, path, model) ==
    LET r == readSession(f, path) IN
    IF ~r.err.ok THEN LoadResult(NilSlice, r.err, FALSE)
    ELSE LET c == cleanHistoryForResume(r.sess.History)
             target == IF r.sess.Model \in DOMAIN modelAliases
                       THEN modelAliases[r.sess.Model] ELSE r.sess.Model
         IN
         IF r.sess.Model # "" /\ r.sess.Model # model
            /\ FamilyOf(target) # FamilyOf(model)
         THEN LoadResult(NilSlice, Mismatch(r.sess.Model, model), FALSE)
         ELSE LoadResult(c.history, Nil, c.panic)

loadSession(f, path, model) ==
    LET r == readSession(f, path) IN
    IF ~r.err.ok THEN LoadResult(NilSlice, r.err, FALSE)
    ELSE LET c == cleanHistoryForResume(r.sess.History) IN
         IF r.sess.Model # "" /\ r.sess.Model # model
         THEN IF /\ r.sess.Model \in DOMAIN modelAliases
                 /\ FamilyOf(modelAliases[r.sess.Model]) = FamilyOf(model)
              THEN LoadResult(c.history, Nil, c.panic)
              ELSE LoadResult(NilSlice, Mismatch(r.sess.Model, model), FALSE)
         ELSE LoadResult(c.history, Nil, c.panic)

(***************************************************************************)
(* The cost analyzer: the model with its alias resolved, the turn count,   *)
(* the number of output images and the costs, in units of 10^-8 USD.       *)
(***************************************************************************)
costBreakdown(model, size, sizeFromData, turns, outputImages, usage) ==
    [Model |-> model, Size |-> size, SizeFromData |-> sizeFromData,
     Turns |-> turns, OutputImages |-> outputImages, Usage |-> usage,
     InputCost |-> 0, OutputCost |-> 0, ImageCost |-> 0, Total |-> 0]
NoBreakdown == costBreakdown("", "", FALSE, 0, 0, NilUsage)
AnalyzeResult(cb, err) == [cb |-> cb, err |-> err]

\* the parts of one history entry that count as output images: inline data
\* of at least one byte in a model turn
ImagesOf(c) ==
    IF c.nil \/ c.Role # "model" THEN 0
    ELSE Cardinality({k \in 1..Len(c.Parts) :
                         ~c.Parts[k].nil /\ c.Parts[k].kind = "image"})

RECURSIVE CountImages(_, _)
CountImages(h, i) ==
    IF i > Len(h) THEN 0 ELSE ImagesOf(h[i]) + CountImages(h, i + 1)

\* lines 30-65: the breakdown before pricing
Counted(sess, turns) ==
    costBreakdown(
        IF sess.Model \in DOMAIN modelAliases
        THEN modelAliases[sess.Model] ELSE sess.Model,
        IF sess.Size = "" THEN "1K" ELSE sess.Size,
        sess.Size # "",
        turns,
        CountImages(sess.History.elems, 1),
        sess.Usage)

Priced_OneTokenPrice(cb) ==
    LET def == modelDefs[cb.Model]
        input == IF cb.Usage.nil THEN 0
                 ELSE cb.Usage.PromptTokens * def.InputPerMTok
        output == IF cb.Usage.nil THEN 0
                  ELSE cb.Usage.CandidateTokens * def.InputPerMTok
        image == IF cb.Size \in DOMAIN def.ImagePrices
                 THEN cb.OutputImages * def.ImagePrices[cb.Size]
                 ELSE cb.OutputImages * def.ImagePrices["1K"]
    IN [cb EXCEPT !.InputCost = input, !.OutputCost = output,
                  !.ImageCost = image, !.Total = input + output + image]

\* lines 67-81: the costs of a model the registry has
Priced(cb) ==
    LET def == modelDefs[cb.Model]
        input == IF cb.Usage.nil THEN 0
                 ELSE cb.Usage.PromptTokens * def.InputPerMTok
        output == IF cb.Usage.nil THEN 0
                  ELSE cb.Usage.CandidateTokens * def.OutputPerMTok
        image == IF cb.Size \in DOMAIN def.ImagePrices
                 THEN cb.OutputImages * def.ImagePrices[cb.Size]
                 ELSE cb.OutputImages * def.ImagePrices["1K"]
    IN [cb EXCEPT !.InputCost = input, !.OutputCost = output,
                  !.ImageCost = image, !.Total = input + output + image]

analyzeSession_HalfTurns(f, path) ==
    LET r == readSession(f, path) IN
    IF ~r.err.ok THEN AnalyzeResult(NoBreakdown, r.err)
    ELSE LET cb == Counted(r.sess, Len(r.sess.History.elems) \div 2) IN
         IF cb.Model \notin DOMAIN modelDefs THEN AnalyzeResult(cb, Nil)
         ELSE AnalyzeResult(Priced(cb), Nil)

analyzeSession_DefaultPrice(f, path) ==
    LET r == readSession(f, path) IN
    IF ~r.err.ok THEN AnalyzeResult(NoBreakdown, r.err)
    ELSE LET cb == Counted(r.sess, (Len(r.sess.History.elems) + 1) \div 2) IN
         IF cb.Model \notin DOMAIN modelDefs
         THEN AnalyzeResult(
                  [Priced([cb EXCEPT !.Model = "flash-3.1"])
                      EXCEPT !.Model = cb.Model], Nil)
         ELSE AnalyzeResult(Priced(cb), Nil)

analyzeSession(f, path) ==
    LET r == readSession(f, path) IN
    IF ~r.err.ok THEN AnalyzeResult(NoBreakdown, r.err)
    ELSE LET cb == Counted(r.sess, (Len(r.sess.History.elems) + 1) \div 2) IN
         IF cb.Model \notin DOMAIN modelDefs THEN AnalyzeResult(cb, Nil)
         ELSE AnalyzeResult(Priced(cb), Nil)

(***************************************************************************)
(* SpecSession: readSession, validateSessionFile and loadSession applied   *)
(* to one file and one requested model.                                    *)
(***************************************************************************)
SessionFiles ==
    {NoFile, File("unreadable", BadSyntax, 1)}
    \cup {File("ok", raw, 1) : raw \in RawDocs}

InitSession ==
    /\ cmd \in [name : {"session"}, file : SessionFiles, model : ModelNames,
                path : {"s.session.json"}]
    /\ pc = "call"
    /\ loc = [op |-> ""]
    /\ ret = Nil
    /\ fs = <<>>
    /\ fs0 = <<>>
    /\ trace = <<>>

SessRead ==
    /\ pc = "call"
    /\ pc' = "readSession"
    /\ loc' = readSession(cmd.file, cmd.path)
    /\ ret' = loc'.err
    /\ UNCHANGED <<fs, fs0, cmd, trace>>

SessValidate ==
    /\ pc = "call"
    /\ pc' = "validateSessionFile"
    /\ loc' = validateSessionFile(cmd.file, cmd.path)
    /\ ret' = loc'.err
    /\ UNCHANGED <<fs, fs0, cmd, trace>>

SessLoad ==
    /\ pc = "call"
    /\ pc' = "loadSession"
    /\ loc' = loadSession(cmd.file, cmd.path, cmd.model)
    /\ ret' = IF loc'.panic THEN Panic ELSE loc'.err
    /\ UNCHANGED <<fs, fs0, cmd, trace>>

SessAnalyze ==
    /\ pc = "call"
    /\ pc' = "analyzeSession"
    /\ loc' = analyzeSession(cmd.file, cmd.path)
    /\ ret' = loc'.err
    /\ UNCHANGED <<fs, fs0, cmd, trace>>

\* cleanHistoryForResume on the history of the document, and on its own
\* result
SessClean ==
    /\ pc = "call"
    /\ readSession(cmd.file, cmd.path).err.ok
    /\ pc' = "cleanHistoryForResume"
    /\ LET once == cleanHistoryForResume(readSession(cmd.file, cmd.path).sess.History)
       IN /\ loc' = [once |-> once,
                     twice |-> IF once.panic THEN once
                               ELSE cleanHistoryForResume(once.history)]
          /\ ret' = IF once.panic THEN Panic ELSE Nil
    /\ UNCHANGED <<fs, fs0, cmd, trace>>

NextSession ==
    SessRead \/ SessValidate \/ SessLoad \/ SessAnalyze \/ SessClean

SpecSession == InitSession /\ [][NextSession]_vars

(***************************************************************************)
(* Outcome classes of the session store, by what the message holds         *)
(***************************************************************************)
IsNotASession(err) == ~err.ok /\ Contains(err.msg, " is not a banana session")
IsParseError(err) == ~err.ok /\ Contains(err.msg, "failed to parse ")
IsIOError(err) == ~err.ok /\ Contains(err.msg, "failed to read ")
IsMismatch(err) == ~err.ok /\ Contains(err.msg, "session was created with ")

\* the file is there, readable, and holds well-formed JSON
IsJSON(f) == f.perm = "ok" /\ f.raw.wf
\* the document has no "history" member, or a null one
LacksHistory(raw) ==
    raw.top # "object" \/ raw.history.k \in {"absent", "null"}
\* every member the document has is of the JSON type the schema gives it
FitsSchema(raw) ==
    \/ raw.top = "null"
    \/ /\ raw.top = "object"
       /\ raw.model.k # "mistyped"
       /\ raw.size.k # "mistyped"
       /\ raw.history.k # "mistyped"
       /\ raw.usage.k # "mistyped"
\* the model a document declares
Declared(raw) == IF raw.model.k = "string" THEN raw.model.v ELSE ""
\* a file readSession accepts: readable JSON of the schema, history an array
IsSession(f) ==
    /\ IsJSON(f)
    /\ f.raw.top = "object"
    /\ FitsSchema(f.raw)
    /\ f.raw.history.k = "array"

AfterStoreCall == pc \in {"readSession", "validateSessionFile"}

(* C7: validateSessionFile returns an error for every session document     *)
(* that has a top-level member outside the schema, even when history is    *)
(* present and well-formed.                                                *)
C7_ExtraFieldRejected ==
    (pc = "validateSessionFile" /\ IsJSON(cmd.file) /\ cmd.file.raw.extra)
        => ~ret.ok

Canonical(name) ==
    IF name \in DOMAIN modelAliases THEN modelAliases[name] ELSE name

CheckPasses(declared, requested) ==
    \/ declared = ""
    \/ declared = requested
    \/ /\ declared \in DOMAIN modelAliases
       /\ FamilyOf(modelAliases[declared]) = FamilyOf(Canonical(requested))

(* C9: on a readable session loadSession's compatibility check passes      *)
(* exactly when the declared model is empty, equals the requested model,   *)
(* or is an alias whose target has the family of the canonical requested   *)
(* model; otherwise it fails with the mismatch error and no history.       *)
C9_CompatibilityCheck ==
    (pc = "loadSession" /\ IsSession(cmd.file)) =>
        /\ IsMismatch(ret) <=> ~CheckPasses(Declared(cmd.file.raw), cmd.model)
        /\ IsMismatch(ret) => loc.history.nil
        /\ ~IsMismatch(ret) => (ret.ok \/ loc.panic)

C9_Witness ==
    /\ pc = "loadSession"
    /\ IsSession(cmd.file)
    /\ Declared(cmd.file.raw) = "flash"
    /\ cmd.model = "flash-2.5"
    /\ ret.ok /\ ~loc.panic
    /\ Len(loc.history.elems) = 2

(* C10: loadSession on a readable session whose declared model equals the  *)
(* requested model always succeeds (returns the history); with a declared  *)
(* canonical name different from the requested model it fails with a       *)
(* message that holds the declared name, same family or not.               *)
C10_ExactMatchSucceeds ==
    (pc = "loadSession" /\ IsSession(cmd.file)) =>
        /\ Declared(cmd.file.raw) = cmd.model
             => (ret.ok /\ ~loc.history.nil)
        /\ (Declared(cmd.file.raw) \in DOMAIN modelDefs
              /\ Declared(cmd.file.raw) # cmd.model)
             => (~ret.ok /\ Contains(ret.msg, Declared(cmd.file.raw)))

(***************************************************************************)
(* File names and locations.  A location is the sequence of names from the *)
(* root to an entry; the filesystem maps locations to files.               *)
(***************************************************************************)
sessionSuffix == <<"session", "json">>

\* strings.HasSuffix(name, ".session.json")
HasSessionSuffix(name) ==
    /\ Len(name) >= 3
    /\ SubSeq(name, Len(name) - 1, Len(name)) = sessionSuffix

At(fsys, l) == IF l \in DOMAIN fsys THEN fsys[l] ELSE NoFile
IsDir(f) == f.perm \in {"dir", "lockeddir"}
Exists(f) == f.perm # "none"
Parent(l) == SubSeq(l, 1, Len(l) - 1)
Base(l) == l[Len(l)]

\* os.WriteFile and os.Remove as the filesystem sees them
Put(fsys, l, f) == [x \in DOMAIN fsys \cup {l} |-> IF x = l THEN f ELSE fsys[x]]
Remove(fsys, l) == Put(fsys, l, NoFile)

(***************************************************************************)
(* runClean                                                                *)
(***************************************************************************)
CleanDir == <<"d">>
NameA == <<"a", "session", "json">>
NameB == <<"b", "session", "json">>
NameNested == <<"nested">>
NameDeep == <<"deep", "session", "json">>
NameNotes == <<"notes", "json">>
NameSub == <<"sub", "session", "json">>

\* os.ReadDir returns the entries sorted by file name
EntryOrder == <<NameA, NameB, NameNested, NameNotes, NameSub>>

ValidFlash ==
    File("ok", JObject(JString("flash"), HArray(<<UserTurn, ModelTurnSigned>>),
                       FALSE), 2)
ValidLegacy == File("ok", JObject(Absent, HArray(<<>>), FALSE), 1)
ValidCanonical ==
    File("ok", JObject(JString("pro-3.0"), HArray(<<UserTurn>>), FALSE), 1)
ExtraField == File("ok", JObject(JString("flash"), HArray(<<>>), TRUE), 1)
Corrupt == File("ok", BadSyntax, 1)
UnknownModel == File("ok", JObject(JString("turbo"), HArray(<<>>), FALSE), 1)
NoHistory == File("ok", JObject(JString("flash"), HAbsent, FALSE), 1)
Unreadable == File("unreadable", BadSyntax, 1)
EmptyObject == File("ok", JObject(Absent, HAbsent, FALSE), 1)
Directory == File("dir", BadSyntax, 0)
LockedDirectory == File("lockeddir", BadSyntax, 0)

CleanFiles ==
    {NoFile, ValidFlash, ValidLegacy, ValidCanonical, ExtraField, Corrupt,
     UnknownModel, NoHistory, Unreadable}

\* the directory trees runClean is run on
CleanTrees ==
    {[l \in {CleanDir, CleanDir \o <<NameA>>, CleanDir \o <<NameB>>,
             CleanDir \o <<NameNested>>, CleanDir \o <<NameNested, NameDeep>>,
             CleanDir \o <<NameNotes>>, CleanDir \o <<NameSub>>} |->
        CASE l = CleanDir -> d
          [] l = CleanDir \o <<NameA>> -> a
          [] l = CleanDir \o <<NameB>> -> b
          [] l = CleanDir \o <<NameNested>> ->
                 IF deep = NoFile THEN NoFile ELSE Directory
          [] l = CleanDir \o <<NameNested, NameDeep>> -> deep
          [] l = CleanDir \o <<NameNotes>> -> notes
          [] OTHER -> sub] :
     d \in {Directory, LockedDirectory}, a \in CleanFiles, b \in CleanFiles,
     deep \in {NoFile, ValidFlash},
     notes \in {NoFile, EmptyObject, ValidFlash},
     sub \in {NoFile, Directory, ValidLegacy}}

\* command-line tokens: a flag, or a positional argument naming a location
Flag(name) == [flag |-> TRUE, name |-> name, at |-> <<>>]
Arg(l) == [flag |-> FALSE, name |-> "", at |-> l]

CleanArgs ==
    {<<>>, <<Arg(CleanDir)>>, <<Flag("-f"), Arg(CleanDir)>>,
     <<Arg(CleanDir), Flag("-f")>>, <<Flag("-x"), Arg(CleanDir)>>,
     <<Arg(CleanDir), Arg(CleanDir)>>, <<Flag("-f"), Arg(<<"missing">>)>>,
     <<Flag("-f"), Arg(CleanDir \o <<NameA>>)>>}

\* flag.FlagSet.Parse with the one boolean flag -f: parsing stops at the
\* first token that is not a flag
ParseClean(args) ==
    IF args # <<>> /\ args[1].flag
    THEN IF args[1].name = "-f"
         THEN [err |-> FALSE, force |-> TRUE, rest |-> Tail(args)]
         ELSE [err |-> TRUE, force |-> FALSE, rest |-> <<>>]
    ELSE [err |-> FALSE, force |-> FALSE, rest |-> args]

listSessionFiles_NoSuffix(fsys, dir) ==
    LET here == SelectSeq(EntryOrder, LAMBDA n :
                    /\ Exists(At(fsys, dir \o <<n>>))
                    /\ ~IsDir(At(fsys, dir \o <<n>>)))
    IN [i \in 1..Len(here) |-> dir \o <<here[i]>>]

\* filepath.Join(dir, name) of every entry of dir that is no directory and
\* whose name ends in .session.json
listSessionFiles(fsys, dir) ==
    LET here == SelectSeq(EntryOrder, LAMBDA n :
                    /\ Exists(At(fsys, dir \o <<n>>))
                    /\ ~IsDir(At(fsys, dir \o <<n>>))
                    /\ HasSessionSuffix(n))
    IN [i \in 1..Len(here) |-> dir \o <<here[i]>>]

Usage == Errorf(<<"usage: banana clean [-f] <directory>">>)

Finish(r) ==
    /\ pc' = "done"
    /\ ret' = r

\* lines 36-75: the flags, the directory, the listing
CleanStart ==
    /\ pc = "start"
    /\ LET p == ParseClean(cmd.args) IN
       IF p.err THEN Finish(Usage) /\ UNCHANGED loc
       ELSE IF Len(p.rest) # 1
       THEN /\ UNCHANGED loc
            /\ IF \E i \in 2..Len(p.rest) :
                     p.rest[i].flag /\ p.rest[i].name = "-f"
               THEN Finish(Errorf(<<"flag -f must appear before the directory">>))
               ELSE Finish(Usage)
       ELSE LET dir == p.rest[1].at IN
            IF ~IsDir(At(fs, dir))
            THEN Finish(Errorf(<<"%q", " is not a directory">>)) /\ UNCHANGED loc
            ELSE IF At(fs, dir).perm = "lockeddir"
            THEN Finish(Errorf(<<"cannot read directory">>)) /\ UNCHANGED loc
            ELSE /\ pc' = "scan"
                 /\ loc' = [force |-> p.force, paths |-> listSessionFiles(fs, dir),
                            i |-> 1, files |-> <<>>, skipped |-> <<>>,
                            listed |-> <<>>, j |-> 1, deleted |-> 0,
                            freed |-> 0, failed |-> <<>>]
                 /\ UNCHANGED ret
    /\ UNCHANGED <<fs, fs0, cmd, trace>>

CleanValidate_NoSkip ==
    /\ pc = "scan"
    /\ loc.i <= Len(loc.paths)
    /\ LET path == loc.paths[loc.i]
           v == validateSessionFile(At(fs, path), path)
       IN loc' = [loc EXCEPT !.i = @ + 1,
                     !.files = Append(@, [path |-> path, info |-> v.info])]
    /\ UNCHANGED <<fs, fs0, pc, cmd, ret, trace>>

\* lines 76-84: one pass of the validation loop
CleanValidate ==
    /\ pc = "scan"
    /\ loc.i <= Len(loc.paths)
    /\ LET path == loc.paths[loc.i]
           v == validateSessionFile(At(fs, path), path)
       IN IF ~v.err.ok
          THEN loc' = [loc EXCEPT !.i = @ + 1, !.skipped = Append(@, path)]
          ELSE loc' = [loc EXCEPT !.i = @ + 1,
                          !.files = Append(@, [path |-> path, info |-> v.info])]
    /\ UNCHANGED <<fs, fs0, pc, cmd, ret, trace>>

Listing(files) ==
    [k \in 1..Len(files) |->
        [path |-> files[k].path,
         model |-> IF files[k].info.Model = "" THEN "legacy"
                   ELSE files[k].info.Model,
         turns |-> files[k].info.Turns,
         size |-> files[k].info.Size]]

CleanList_IgnoreForce ==
    /\ pc = "scan"
    /\ loc.i > Len(loc.paths)
    /\ IF loc.files = <<>>
       THEN Finish(Nil) /\ UNCHANGED loc
       ELSE /\ loc' = [loc EXCEPT !.listed = Listing(loc.files)]
            /\ pc' = "delete"
            /\ UNCHANGED ret
    /\ UNCHANGED <<fs, fs0, cmd, trace>>

\* lines 86-108: nothing found, the listing, and the dry run's return
CleanList ==
    /\ pc = "scan"
    /\ loc.i > Len(loc.paths)
    /\ IF loc.files = <<>>
       THEN Finish(Nil) /\ UNCHANGED loc
       ELSE /\ loc' = [loc EXCEPT !.listed = Listing(loc.files)]
            /\ IF ~loc.force THEN Finish(Nil)
               ELSE pc' = "delete" /\ UNCHANGED ret
    /\ UNCHANGED <<fs, fs0, cmd, trace>>

RemoveOp(l, ok) == [op |-> "remove", at |-> l, ok |-> ok]

CleanRemove_StopOnFailure ==
    /\ pc = "delete"
    /\ loc.j <= Len(loc.files)
    /\ LET f == loc.files[loc.j] IN
       \/ /\ fs' = Remove(fs, f.path)
          /\ trace' = Append(trace, RemoveOp(f.path, TRUE))
          /\ loc' = [loc EXCEPT !.j = @ + 1, !.deleted = @ + 1,
                        !.freed = @ + f.info.Size]
       \/ /\ fs' = fs
          /\ trace' = Append(trace, RemoveOp(f.path, FALSE))
          /\ loc' = [loc EXCEPT !.j = Len(loc.files) + 1,
                                !.failed = Append(@, f.path)]
    /\ UNCHANGED <<fs0, pc, cmd, ret>>

\* lines 112-119: one pass of the delete loop; os.Remove may fail
CleanRemove ==
    /\ pc = "delete"
    /\ loc.j <= Len(loc.files)
    /\ LET f == loc.files[loc.j] IN
       \/ /\ fs' = Remove(fs, f.path)
          /\ trace' = Append(trace, RemoveOp(f.path, TRUE))
          /\ loc' = [loc EXCEPT !.j = @ + 1, !.deleted = @ + 1,
                        !.freed = @ + f.info.Size]
       \/ /\ fs' = fs
          /\ trace' = Append(trace, RemoveOp(f.path, FALSE))
          /\ loc' = [loc EXCEPT !.j = @ + 1, !.failed = Append(@, f.path)]
    /\ UNCHANGED <<fs0, pc, cmd, ret>>

\* lines 121-127: the report
CleanReport ==
    /\ pc = "delete"
    /\ loc.j > Len(loc.files)
    /\ Finish(Nil)
    /\ UNCHANGED <<fs, fs0, cmd, loc, trace>>

InitClean ==
    /\ fs \in CleanTrees
    /\ fs0 = fs
    /\ cmd \in [name : {"clean"}, args : CleanArgs]
    /\ pc = "start"
    /\ loc = [force |-> FALSE]
    /\ ret = Nil
    /\ trace = <<>>

NextClean ==
    CleanStart \/ CleanValidate \/ CleanList \/ CleanRemove \/ CleanReport

SpecClean == InitClean /\ [][NextClean]_vars

(***************************************************************************)
(* Claims about runClean                                                   *)
(***************************************************************************)
\* an entry directly inside the cleaned directory, no directory itself,
\* whose name ends in .session.json
TopLevelSessionFile(l) ==
    /\ Len(l) = Len(CleanDir) + 1
    /\ Parent(l) = CleanDir
    /\ HasSessionSuffix(Base(l))
    /\ Exists(fs0[l])
    /\ ~IsDir(fs0[l])

FailsValidation(l) == ~validateSessionFile(fs0[l], l).err.ok
Attempted(l) == \E k \in 1..Len(trace) : trace[k].at = l
Removed(l) == \E k \in 1..Len(trace) : trace[k].at = l /\ trace[k].ok

(* C1: in either mode runClean never removes a file ending in              *)
(* .session.json for which validateSessionFile returns an error: it is     *)
(* there with its content unchanged, and no removal of it was attempted.   *)
C1_InvalidNeverDeleted ==
    \A l \in DOMAIN fs0 :
        (HasSessionSuffix(Base(l)) /\ Exists(fs0[l]) /\ FailsValidation(l))
            => (At(fs, l) = fs0[l] /\ ~Attempted(l))

C1_Witness ==
    /\ pc = "done"
    /\ loc.force
    /\ Removed(CleanDir \o <<NameA>>)
    /\ fs0[CleanDir \o <<NameB>>] = Corrupt
    /\ fs[CleanDir \o <<NameB>>] = Corrupt

(* C2: without -f runClean deletes nothing: the files of the directory and *)
(* their contents are the same before and after, valid sessions, invalid   *)
(* sessions and unrelated files alike.                                     *)
C2_DryRunDeletesNothing ==
    ~ParseClean(cmd.args).force => (fs = fs0 /\ trace = <<>>)

C2_Witness ==
    /\ pc = "done"
    /\ ret.ok
    /\ cmd.args = <<Arg(CleanDir)>>
    /\ Len(loc.listed) = 2
    /\ Len(loc.skipped) = 1
    /\ fs0[CleanDir \o <<NameNotes>>] = EmptyObject

(* C3: with -f runClean attempts to delete every file that passed          *)
(* validateSessionFile, also when invalid session files are in the         *)
(* directory; a failed delete is reported and does not stop the attempts   *)
(* on the remaining candidates, and every candidate whose removal          *)
(* succeeded is gone when the command returns.                             *)
C3_ForceDeletesEveryCandidate ==
    (pc = "done" /\ ret.ok /\ loc.force) =>
        /\ \A l \in DOMAIN fs0 :
              (TopLevelSessionFile(l) /\ ~FailsValidation(l)) => Attempted(l)
        /\ \A k \in 1..Len(trace) :
              /\ trace[k].ok => ~Exists(At(fs, trace[k].at))
              /\ ~trace[k].ok =>
                    \E n \in 1..Len(loc.failed) : loc.failed[n] = trace[k].at

C3_Witness ==
    /\ pc = "done"
    /\ loc.force
    /\ Len(trace) = 2
    /\ ~trace[1].ok
    /\ trace[2].ok
    /\ ~Exists(fs[trace[2].at])
    /\ Len(loc.skipped) = 1

(* C4: runClean's effects are confined to the entries directly inside the  *)
(* given directory that are no directories and whose name ends in          *)
(* .session.json: a file without the suffix, a subdirectory and a file     *)
(* inside a subdirectory (even a valid session) are never deleted.         *)
C4_EffectsConfined ==
    /\ DOMAIN fs = DOMAIN fs0
    /\ \A l \in DOMAIN fs0 :
          ~TopLevelSessionFile(l) => (fs[l] = fs0[l] /\ ~Attempted(l))

C4_Witness ==
    /\ pc = "done"
    /\ loc.force
    /\ loc.deleted = 2
    /\ fs[CleanDir \o <<NameNotes>>] = ValidFlash
    /\ fs[CleanDir \o <<NameNested, NameDeep>>] = ValidFlash
    /\ fs[CleanDir \o <<NameSub>>] = Directory

(***************************************************************************)
(* The PNG text codec.  A buffer is a sequence of bytes (0..255), a string *)
(* the sequence of its bytes.  int has 64 bits on every platform the       *)
(* Makefile builds for, so int(uint32) is never negative.                  *)
(***************************************************************************)
pngSignature == <<137, 80, 78, 71, 13, 10, 26, 10>>
tEXt == <<116, 69, 88, 116>>

pngHasSignature(data) ==
    /\ Len(data) >= 8
    /\ \A i \in 1..8 : data[i] = pngSignature[i]

\* data[lo:hi] of Go, offsets counted from 0; legal when 0 <= lo <= hi <= len
InRange(data, lo, hi) == 0 <= lo /\ lo <= hi /\ hi <= Len(data)
Sub(data, lo, hi) == SubSeq(data, lo + 1, hi)

\* a length no buffer of the model reaches: stands for every value of a
\* length field from 2^30 on
Huge == 1073741824
\* binary.BigEndian.Uint32
Uint32(b) ==
    IF b[1] >= 64 THEN Huge
    ELSE b[1] * 16777216 + b[2] * 65536 + b[3] * 256 + b[4]
\* binary.BigEndian.PutUint32
PutUint32(n) ==
    <<n \div 16777216, (n \div 65536) % 256, (n \div 256) % 256, n % 256>>

\* hash/crc32 with the IEEE polynomial, on 32-bit words held as their four
\* bytes, the most significant first
XorBit(a, b, w) == w * (((a \div w) + (b \div w)) % 2)
XorBits(a, b) ==
    XorBit(a, b, 1) + XorBit(a, b, 2) + XorBit(a, b, 4) + XorBit(a, b, 8)
    + XorBit(a, b, 16) + XorBit(a, b, 32) + XorBit(a, b, 64)
    + XorBit(a, b, 128)
XorTable == [a \in 0..255 |-> [b \in 0..255 |-> XorBits(a, b)]]
XorByte(a, b) == XorTable[a][b]
Xor(a, b) ==
    <<XorByte(a[1], b[1]), XorByte(a[2], b[2]), XorByte(a[3], b[3]),
      XorByte(a[4], b[4])>>
Shr(a) ==
    <<a[1] \div 2, a[2] \div 2 + 128 * (a[1] % 2),
      a[3] \div 2 + 128 * (a[2] % 2), a[4] \div 2 + 128 * (a[3] % 2)>>
\* 0xEDB88320
Poly == <<237, 184, 131, 32>>
Ones == <<255, 255, 255, 255>>

\* one round of the bitwise algorithm
crcRound(c) == IF c[4] % 2 = 1 THEN Xor(Shr(c), Poly) ELSE Shr(c)
\* eight rounds
crcRounds8(r0) ==
    LET r1 == crcRound(r0)
        r2 == crcRound(r1)
        r3 == crcRound(r2)
        r4 == crcRound(r3)
        r5 == crcRound(r4)
        r6 == crcRound(r5)
        r7 == crcRound(r6)
    IN crcRound(r7)
\* crc32.IEEETable
IEEETable == [b \in 0..255 |-> crcRounds8(<<0, 0, 0, b>>)]

\* crc = IEEETable[byte(crc) ^ b] ^ (crc >> 8)
crcByte(c, byte) ==
    Xor(IEEETable[XorByte(c[4], byte)], <<0, c[1], c[2], c[3]>>)

\* crc.Write of the bytes up to index n (the test on c has the word
\* computed before it is passed on)
RECURSIVE crcWrite(_, _)
crcWrite(bytes, n) ==
    IF n = 0 THEN Ones
    ELSE LET c == crcWrite(bytes, n - 1)
         IN IF Len(c) = 4 THEN crcByte(c, bytes[n]) ELSE Ones

\* crc.Sum32() written by PutUint32
crc32Bytes(bytes) == Xor(crcWrite(bytes, Len(bytes)), Ones)

\* the chunk pngSetText builds: length, "tEXt", key 0x00 value, CRC
textChunk(key, value) ==
    LET payload == key \o <<0>> \o value
    IN PutUint32(Len(payload)) \o tEXt \o payload \o crc32Bytes(tEXt \o payload)

SetResult(result, err) == [result |-> result, err |-> err]

pngSetText_Append(data, key, value) ==
    IF ~pngHasSignature(data) THEN SetResult(NilSlice, Errorf(<<"not a PNG file">>))
    ELSE IF Len(data) < 8 + 8 THEN SetResult(NilSlice, Errorf(<<"PNG too short">>))
    ELSE LET ihdrLen == Uint32(Sub(data, 8, 12))
             insertAt == 8 + 4 + 4 + ihdrLen + 4
         IN IF insertAt > Len(data)
            THEN SetResult(NilSlice, Errorf(<<"PNG IHDR extends beyond data">>))
            ELSE SetResult(Slice(data \o textChunk(key, value)), Nil)

pngSetText(data, key, value) ==
    IF ~pngHasSignature(data) THEN SetResult(NilSlice, Errorf(<<"not a PNG file">>))
    ELSE IF Len(data) < 8 + 8 THEN SetResult(NilSlice, Errorf(<<"PNG too short">>))
    ELSE LET ihdrLen == Uint32(Sub(data, 8, 12))
             insertAt == 8 + 4 + 4 + ihdrLen + 4
         IN IF insertAt > Len(data)
            THEN SetResult(NilSlice, Errorf(<<"PNG IHDR extends beyond data">>))
            ELSE SetResult(Slice(Sub(data, 0, insertAt) \o textChunk(key, value)
                                 \o Sub(data, insertAt, Len(data))),
                           Nil)

GetResult(value, err, panic) == [value |-> value, err |-> err, panic |-> panic]
TextNotFound == Errorf(<<"tEXt chunk not found for key: ", "%s">>)
OutOfRange == GetResult(<<>>, Panic, TRUE)

\* the index (from 0) of the first 0x00 of the payload, Len(payload) if none
FirstNul(payload) ==
    IF \E i \in 1..Len(payload) : payload[i] = 0
    THEN (CHOOSE i \in 1..Len(payload) :
              payload[i] = 0 /\ \A j \in 1..(i - 1) : payload[j] # 0) - 1
    ELSE Len(payload)

RECURSIVE scanChunks_NoLengthCheck(_, _, _)
scanChunks_NoLengthCheck(data, key, offset) ==
    IF ~(offset + 8 <= Len(data)) THEN GetResult(<<>>, TextNotFound, FALSE)
    ELSE IF ~InRange(data, offset, offset + 8) THEN OutOfRange
    ELSE LET chunkLen == Uint32(Sub(data, offset, offset + 4))
             chunkType == Sub(data, offset + 4, offset + 8)
             chunkEnd == offset + 8 + chunkLen + 4
         IN IF chunkType # tEXt
            THEN scanChunks_NoLengthCheck(data, key, chunkEnd)
            ELSE IF ~InRange(data, offset + 8, offset + 8 + chunkLen)
            THEN OutOfRange
            ELSE LET payload == Sub(data, offset + 8, offset + 8 + chunkLen)
                     i == FirstNul(payload)
                 IN IF i < Len(payload) /\ Sub(payload, 0, i) = key
                    THEN GetResult(Sub(payload, i + 1, Len(payload)), Nil, FALSE)
                    ELSE scanChunks_NoLengthCheck(data, key, chunkEnd)

\* lines 97-120: the loop, from one value of offset
RECURSIVE scanChunks(_, _, _)
scanChunks(data, key, offset) ==
    IF ~(offset + 8 <= Len(data)) THEN GetResult(<<>>, TextNotFound, FALSE)
    ELSE IF ~InRange(data, offset, offset + 8) THEN OutOfRange
    ELSE LET chunkLen == Uint32(Sub(data, offset, offset + 4))
             chunkType == Sub(data, offset + 4, offset + 8)
             chunkEnd == offset + 8 + chunkLen + 4
         IN IF chunkEnd > Len(data) THEN GetResult(<<>>, TextNotFound, FALSE)
            ELSE IF chunkType # tEXt THEN scanChunks(data, key, chunkEnd)
            ELSE IF ~InRange(data, offset + 8, offset + 8 + chunkLen)
            THEN OutOfRange
            ELSE LET payload == Sub(data, offset + 8, offset + 8 + chunkLen)
                     i == FirstNul(payload)
                 IN IF i < Len(payload) /\ Sub(payload, 0, i) = key
                    THEN GetResult(Sub(payload, i + 1, Len(payload)), Nil, FALSE)
                    ELSE scanChunks(data, key, chunkEnd)

pngGetText(data, key) ==
    IF ~pngHasSignature(data)
    THEN GetResult(<<>>, Errorf(<<"not a PNG file">>), FALSE)
    ELSE scanChunks(data, key, 8)

(***************************************************************************)
(* SpecPng: pngSetText and pngGetText applied to one buffer, one key and   *)
(* one value, and pngGetText applied to what pngSetText returned.          *)
(***************************************************************************)
IHDR == <<73, 72, 68, 82>>
IDAT == <<73, 68, 65, 84>>
Chunk(type, body) ==
    PutUint32(Len(body)) \o type \o body \o crc32Bytes(type \o body)

KeyB == <<98>>
KeyK == <<107>>
KeyWithNul == <<98, 0, 120>>
PngKeys == {KeyB, KeyK, <<>>, KeyWithNul}
PngValues == {<<>>, <<118>>, <<118, 0, 119>>}

HeaderEmpty == Chunk(IHDR, <<>>)
HeaderTwo == Chunk(IHDR, <<1, 8>>)
TextB == Chunk(tEXt, KeyB \o <<0, 111>>)
TextK == Chunk(tEXt, KeyK \o <<0, 112>>)
TextNoNul == Chunk(tEXt, KeyB)
\* declares five bytes of data and holds one
LyingChunk == PutUint32(5) \o IDAT \o <<7>> \o <<0, 0, 0, 0>>
\* declares 2^30 bytes of data
HugeChunk == <<64, 0, 0, 0>> \o IDAT \o <<0, 0, 0, 0>>
\* declares no data and holds four bytes: the chunks after it are read
\* from the wrong offset
ShiftedChunk == PutUint32(0) \o IDAT \o <<0, 0, 0, 12>> \o <<0, 0, 0, 0>>

ChunkKinds ==
    {HeaderTwo, TextB, TextK, TextNoNul, LyingChunk, HugeChunk, ShiftedChunk}

RECURSIVE Concat(_)
Concat(ss) == IF ss = <<>> THEN <<>> ELSE Head(ss) \o Concat(Tail(ss))

\* the buffer without its last n bytes
DropLast(b, n) == IF n >= Len(b) THEN <<>> ELSE SubSeq(b, 1, Len(b) - n)

PngBuffers ==
    {DropLast(pngSignature \o Concat(cs), n) :
        cs \in SeqsUpTo(ChunkKinds, MaxChunks), n \in {0, 1}}
    \cup {pngSignature \o HeaderEmpty, pngSignature \o HeaderEmpty \o TextB,
          DropLast(pngSignature \o HeaderTwo \o TextB, 13),
          DropLast(pngSignature \o HeaderTwo, 5), DropLast(pngSignature, 6),
          <<>>, <<255, 216, 255, 224>>, <<255, 216, 255, 224>> \o HeaderEmpty,
          Tail(pngSignature) \o HeaderEmpty \o TextB,
          <<110, 111, 116, 32, 97, 32, 112, 110, 103>>}

InitPng ==
    /\ cmd \in [name : {"png"}, data : PngBuffers, key : PngKeys,
                value : PngValues]
    /\ pc = "call"
    /\ loc = [op |-> ""]
    /\ ret = Nil
    /\ fs = <<>>
    /\ fs0 = <<>>
    /\ trace = <<>>

\* data is the caller's buffer as the call leaves it: pngSetText writes
\* into payload, chunk and result only
PngSet ==
    /\ pc = "call"
    /\ pc' = "pngSetText"
    /\ loc' = [set |-> pngSetText(cmd.data, cmd.key, cmd.value),
               data |-> cmd.data]
    /\ ret' = loc'.set.err
    /\ UNCHANGED <<fs, fs0, cmd, trace>>

PngGet ==
    /\ pc = "call"
    /\ pc' = "pngGetText"
    /\ loc' = [get |-> pngGetText(cmd.data, cmd.key)]
    /\ ret' = loc'.get.err
    /\ UNCHANGED <<fs, fs0, cmd, trace>>

\* pngGetText(pngSetText(data, key, value), key)
PngReadBack ==
    /\ pc = "pngSetText"
    /\ ret.ok
    /\ pc' = "readBack"
    /\ loc' = [set |-> loc.set, data |-> loc.data,
               get |-> pngGetText(loc.set.result.elems, cmd.key)]
    /\ ret' = loc'.get.err
    /\ UNCHANGED <<fs, fs0, cmd, trace>>

NextPng == PngSet \/ PngGet \/ PngReadBack

SpecPng == InitPng /\ [][NextPng]_vars

(***************************************************************************)
(* Claims about the PNG text codec                                         *)
(***************************************************************************)
(* C13: for any key and value and any buffer on which pngSetText succeeds, *)
(* pngGetText of the result under the same key returns exactly the value,  *)
(* and the result carries the signature whenever the input did.            *)
C13_RoundTrip ==
    pc = "readBack" =>
        /\ loc.get.err.ok
        /\ loc.get.value = cmd.value
        /\ pngHasSignature(cmd.data) => pngHasSignature(loc.set.result.elems)
\* the first chunk lies whole inside the buffer
FirstChunkWhole(data) ==
    /\ Len(data) >= 16
    /\ 8 + 12 + Uint32(SubSeq(data, 9, 12)) <= Len(data)
AfterSet == pc \in {"pngSetText", "readBack"}

(* C14: on success pngSetText returns a new buffer data[0..p) ++ chunk ++  *)
(* data[p..), p the end of the first chunk and chunk a tEXt chunk of       *)
(* 12 + len(key) + 1 + len(value) bytes: the result is strictly longer,    *)
(* the bytes before and after the insertion point are preserved in order,  *)
(* and the input buffer is not modified.  On data without the signature,   *)
(* or truncated before the first chunk ends, it fails and returns no       *)
(* buffer.                                                                 *)
C14_SpliceAfterFirstChunk ==
    AfterSet =>
        LET data == cmd.data
            r == loc.set.result.elems
            n == 12 + Len(cmd.key) + 1 + Len(cmd.value)
            payload == cmd.key \o <<0>> \o cmd.value
        IN /\ loc.set.err.ok <=> (pngHasSignature(data) /\ FirstChunkWhole(data))
           /\ ~loc.set.err.ok => (loc.set.result.nil /\ r = <<>>)
           /\ loc.data = data
           /\ loc.set.err.ok =>
                 LET p == 8 + 12 + Uint32(SubSeq(data, 9, 12)) IN
                 /\ ~loc.set.result.nil
                 /\ Len(r) = Len(data) + n
                 /\ Len(r) > Len(data)
                 /\ SubSeq(r, 1, p) = SubSeq(data, 1, p)
                 /\ SubSeq(r, p + n + 1, Len(r)) = SubSeq(data, p + 1, Len(data))
                 /\ SubSeq(r, p + 1, p + 4) = PutUint32(Len(payload))
                 /\ SubSeq(r, p + 5, p + 8) = tEXt
                 /\ SubSeq(r, p + 9, p + 8 + Len(payload)) = payload
                 /\ SubSeq(r, p + n - 3, p + n) = crc32Bytes(tEXt \o payload)

\* the CRC is the one of the IEEE polynomial: 0xCB04F390 for "tEXtk\0v"
C14_Witness ==
    /\ pc = "pngSetText"
    /\ ret.ok
    /\ cmd.data = pngSignature \o HeaderTwo \o TextB
    /\ cmd.key = KeyK
    /\ cmd.value = <<118>>
    /\ loc.set.result.elems =
           pngSignature \o HeaderTwo
           \o <<0, 0, 0, 3>> \o tEXt \o <<107, 0, 118>> \o <<203, 4, 243, 144>>
           \o TextB

\* the offsets of the chunks pngGetText looks at: those that lie whole
\* inside the buffer, up to the first that does not
RECURSIVE WholeChunks(_, _)
WholeChunks(data, o) ==
    IF o + 8 > Len(data) THEN {}
    ELSE LET end == o + 12 + Uint32(SubSeq(data, o + 1, o + 4)) IN
         IF end > Len(data) THEN {} ELSE {o} \cup WholeChunks(data, end)

\* the chunk at offset o is a tEXt chunk whose keyword, the bytes before
\* its first 0x00, is key
TextChunkWithKey(data, o, key) ==
    LET n == Uint32(SubSeq(data, o + 1, o + 4))
        payload == SubSeq(data, o + 9, o + 8 + n)
    IN /\ SubSeq(data, o + 5, o + 8) = tEXt
       /\ \E i \in 1..n :
             /\ payload[i] = 0
             /\ \A j \in 1..(i - 1) : payload[j] # 0
             /\ SubSeq(payload, 1, i - 1) = key

KeyOccurs(data, key) ==
    \E o \in WholeChunks(data, 8) : TextChunkWithKey(data, o, key)
OtherTextChunks(data, key) ==
    \E o \in WholeChunks(data, 8) :
        SubSeq(data, o + 5, o + 8) = tEXt /\ ~TextChunkWithKey(data, o, key)
IsTextNotFound(err) ==
    ~err.ok /\ Contains(err.msg, "tEXt chunk not found for key: ")

(* C15: for every buffer that carries the signature pngGetText ends        *)
(* without reading outside the buffer, and returns the not-found error     *)
(* whenever no tEXt chunk with the requested key occurs before the end of  *)
(* the stream or before the first chunk whose declared length runs past    *)
(* the end of the buffer, also when tEXt chunks with other keys are there. *)
C15_NotFoundNoCrash ==
    (pc = "pngGetText" /\ pngHasSignature(cmd.data)) =>
        /\ ~loc.get.panic
        /\ ~KeyOccurs(cmd.data, cmd.key) =>
              (IsTextNotFound(ret) /\ loc.get.value = <<>>)
        /\ KeyOccurs(cmd.data, cmd.key) => ret.ok

C15_Witness ==
    /\ pc = "pngGetText"
    /\ cmd.data = DropLast(pngSignature \o TextK \o TextB, 1)
    /\ cmd.key = KeyB
    /\ OtherTextChunks(cmd.data, cmd.key)
    /\ IsTextNotFound(ret)
    /\ ~loc.get.panic

(***************************************************************************)
(* Paths.  A path is rooted or not and a sequence of names; "" is the path *)
(* with no names.  "d//x" has the empty name <<"">> in the middle.         *)
(***************************************************************************)
Dot == <<"", "">>
DotDot == <<"", "", "">>
EmptyName == <<"">>
Path(abs, elems) == [abs |-> abs, elems |-> elems]
NoPath == Path(FALSE, <<>>)
Rel(elems) == Path(FALSE, elems)
Abs(elems) == Path(TRUE, elems)

RECURSIVE CleanFrom(_, _, _, _)
CleanFrom(elems, i, stack, abs) ==
    IF i > Len(elems) THEN stack
    ELSE LET e == elems[i] IN
         IF e = EmptyName \/ e = Dot THEN CleanFrom(elems, i + 1, stack, abs)
         ELSE IF e = DotDot
         THEN IF stack # <<>> /\ stack[Len(stack)] # DotDot
              THEN CleanFrom(elems, i + 1, SubSeq(stack, 1, Len(stack) - 1), abs)
              ELSE IF abs THEN CleanFrom(elems, i + 1, stack, abs)
              ELSE CleanFrom(elems, i + 1, Append(stack, e), abs)
         ELSE CleanFrom(elems, i + 1, Append(stack, e), abs)

\* filepath.Clean: lexical only
Clean(p) ==
    LET c == CleanFrom(p.elems, 1, <<>>, p.abs) IN
    IF c = <<>> /\ ~p.abs THEN Rel(<<Dot>>) ELSE Path(p.abs, c)

\* filepath.Dir
Dir(p) ==
    IF p.elems = <<>> THEN Clean(p)
    ELSE Clean(Path(p.abs, SubSeq(p.elems, 1, Len(p.elems) - 1)))

\* filepath.Ext of a name: the last segment, when the name has a dot
HasExt(name) == Len(name) >= 2
ExtOf(name) == name[Len(name)]
\* strings.ToLower, on the segments the model uses
ToLower(seg) == IF seg = "PNG" THEN "png" ELSE seg
\* strings.ToUpper, on the size tags the model uses
ToUpper(z) == IF z = "2k" THEN "2K" ELSE z

\* strings.TrimSuffix(outputPath, filepath.Ext(outputPath)) + sessionSuffix
sessionPath(outputPath) ==
    IF outputPath.elems = <<>> THEN Path(outputPath.abs, <<<<"">> \o sessionSuffix>>)
    ELSE LET n == Len(outputPath.elems)
             last == outputPath.elems[n]
             stem == IF HasExt(last) THEN SubSeq(last, 1, Len(last) - 1) ELSE last
         IN Path(outputPath.abs,
                 SubSeq(outputPath.elems, 1, n - 1) \o <<stem \o sessionSuffix>>)

\* the working directory of the process
Cwd == <<<<"w">>>>

RECURSIVE Walk(_, _, _, _)
Walk(fsys, elems, i, cur) ==
    IF i > Len(elems) THEN [ok |-> TRUE, at |-> cur]
    ELSE IF ~IsDir(At(fsys, cur)) THEN [ok |-> FALSE, at |-> cur]
    ELSE LET e == elems[i] IN
         IF e = EmptyName \/ e = Dot THEN Walk(fsys, elems, i + 1, cur)
         ELSE IF e = DotDot
         THEN Walk(fsys, elems, i + 1,
                   IF cur = <<>> THEN cur ELSE SubSeq(cur, 1, Len(cur) - 1))
         ELSE Walk(fsys, elems, i + 1, Append(cur, e))

\* the kernel's path resolution: every name but the last must be a directory
Resolve(fsys, p) == Walk(fsys, p.elems, 1, IF p.abs THEN <<>> ELSE Cwd)

\* os.Stat: the file, or NoFile when the path leads nowhere
Stat(fsys, p) ==
    LET r == Resolve(fsys, p) IN
    IF p = NoPath \/ ~r.ok THEN NoFile ELSE At(fsys, r.at)
StatOK(f) == f.perm \notin {"none", "noaccess"}

(***************************************************************************)
(* The generation run: options                                             *)
(***************************************************************************)
maxInputFileSize == 7340032

validRatios == {"1:1", "2:3", "3:2", "3:4", "4:3", "9:16", "16:9", "21:9"}

supportedMimes == {"png", "jpg", "jpeg", "webp", "heic", "heif"}

\* mimeFromPath(path) succeeds
mimeFromPath(p) ==
    /\ p.elems # <<>>
    /\ HasExt(p.elems[Len(p.elems)])
    /\ ToLower(ExtOf(p.elems[Len(p.elems)])) \in supportedMimes

validModelNames == <<"flash", "flash-2.5", "flash-3.1", "pro", "pro-3.0">>

options(a, resolved, size) ==
    [prompt |-> a.prompt, output |-> a.output, inputs |-> a.inputs,
     session |-> a.session, model |-> resolved, modelID |-> modelDefs[resolved].ID,
     ratio |-> a.ratio, size |-> size, force |-> a.force]
NoOptions ==
    [prompt |-> "", output |-> NoPath, inputs |-> <<>>, session |-> NoPath,
     model |-> "", modelID |-> "", ratio |-> "", size |-> "", force |-> FALSE]

InSeq(x, q) == \E i \in 1..Len(q) : q[i] = x

UsageRun == Errorf(<<"usage: banana -p <prompt> -o <output>">>)

\* parseAndValidateFlags: [err, opts]
parseAndValidateFlags(a) ==
    LET resolved == IF a.model \in DOMAIN modelAliases
                    THEN modelAliases[a.model] ELSE a.model
        normalized == ToUpper(a.size)
        fail(m) == [err |-> Errorf(m), opts |-> NoOptions]
    IN
    IF a.badflag THEN [err |-> UsageRun, opts |-> NoOptions]
    ELSE IF a.extra THEN fail(<<"unexpected arguments: ">>)
    ELSE IF a.prompt \in {"", " "} \/ a.output = NoPath
    THEN [err |-> UsageRun, opts |-> NoOptions]
    ELSE IF resolved \notin DOMAIN modelDefs
    THEN fail(<<"unknown model ", a.model, ": valid models are ">>
              \o validModelNames)
    ELSE IF a.ratio \notin validRatios
    THEN fail(<<"invalid aspect ratio ", a.ratio>>)
    ELSE IF a.size # "" /\ Len(modelDefs[resolved].Sizes) <= 1
    THEN fail(<<"-z is not supported by ", resolved>>)
    ELSE IF a.size # "" /\ ~InSeq(normalized, modelDefs[resolved].Sizes)
    THEN fail(<<"invalid size ", normalized, " for ", resolved>>)
    ELSE IF Len(a.inputs) > modelDefs[resolved].MaxInputImages
    THEN fail(<<resolved, " supports up to ", "%d", " input images">>)
    ELSE IF ~a.apiKey THEN fail(<<"GOOGLE_API_KEY is not set">>)
    ELSE IF ~(/\ HasExt(a.output.elems[Len(a.output.elems)])
              /\ ToLower(ExtOf(a.output.elems[Len(a.output.elems)])) = "png")
    THEN fail(<<"output file must be .png">>)
    ELSE [err |-> Nil,
          opts |-> options(a, resolved,
                           IF a.size # "" THEN normalized ELSE "")]

RECURSIVE CheckInputs_NoSizeCheck(_, _, _)
CheckInputs_NoSizeCheck(fsys, inputs, i) ==
    IF i > Len(inputs) THEN Nil
    ELSE LET info == Stat(fsys, inputs[i]) IN
         IF info.perm = "none"
         THEN Errorf(<<"input file ", "%q", " does not exist">>)
         ELSE IF info.perm = "noaccess"
         THEN Errorf(<<"cannot access input file ", "%q">>)
         ELSE IF ~mimeFromPath(inputs[i])
         THEN Errorf(<<"input file ", "%q", " has unsupported extension">>)
         ELSE CheckInputs_NoSizeCheck(fsys, inputs, i + 1)

RECURSIVE CheckInputs(_, _, _)
\* lines 1471-1484: the first input that is missing, inaccessible, of an
\* unsupported extension or too big
CheckInputs(fsys, inputs, i) ==
    IF i > Len(inputs) THEN Nil
    ELSE LET info == Stat(fsys, inputs[i]) IN
         IF info.perm = "none"
         THEN Errorf(<<"input file ", "%q", " does not exist">>)
         ELSE IF info.perm = "noaccess"
         THEN Errorf(<<"cannot access input file ", "%q">>)
         ELSE IF ~mimeFromPath(inputs[i])
         THEN Errorf(<<"input file ", "%q", " has unsupported extension">>)
         ELSE IF info.size > maxInputFileSize
         THEN Errorf(<<"input file ", "%q", " exceeds 7 MB inline limit">>)
         ELSE CheckInputs(fsys, inputs, i + 1)

NoOutputDir(opts) ==
    Errorf(<<"output directory ", "%q", " does not exist">>)
Collides(opts) ==
    Errorf(<<"session save path ", "%q",
             " collides with -s source (use -f to overwrite)">>)
OutputExistsErr(opts) ==
    Errorf(<<"output file ", "%q",
             " already exists (use -f to overwrite)">>)
SessionExistsErr(opts) ==
    Errorf(<<"session file ", "%q",
             " already exists (use -f to overwrite)">>)

validatePaths_NoCollisionCheck(fsys, opts) ==
    LET sessOut == sessionPath(opts.output) IN
    IF ~IsDir(Stat(fsys, Dir(opts.output))) THEN NoOutputDir(opts)
    ELSE IF StatOK(Stat(fsys, opts.output)) /\ ~opts.force
    THEN OutputExistsErr(opts)
    ELSE IF StatOK(Stat(fsys, sessOut)) /\ ~opts.force
    THEN SessionExistsErr(opts)
    ELSE CheckInputs(fsys, opts.inputs, 1)

validatePaths_NoSessionExistsCheck(fsys, opts) ==
    LET sessOut == sessionPath(opts.output) IN
    IF ~IsDir(Stat(fsys, Dir(opts.output))) THEN NoOutputDir(opts)
    ELSE IF /\ opts.session # NoPath
            /\ ~opts.force
            /\ Clean(sessOut) = Clean(opts.session)
    THEN Collides(opts)
    ELSE IF StatOK(Stat(fsys, opts.output)) /\ ~opts.force
    THEN OutputExistsErr(opts)
    ELSE CheckInputs(fsys, opts.inputs, 1)

\* validatePaths: the error it returns, Nil when the paths are fine
validatePaths(fsys, opts) ==
    LET sessOut == sessionPath(opts.output) IN
    IF ~IsDir(Stat(fsys, Dir(opts.output))) THEN NoOutputDir(opts)
    ELSE IF /\ opts.session # NoPath
            /\ ~opts.force
            /\ Clean(sessOut) = Clean(opts.session)
    THEN Collides(opts)
    ELSE IF StatOK(Stat(fsys, opts.output)) /\ ~opts.force
    THEN OutputExistsErr(opts)
    ELSE IF StatOK(Stat(fsys, sessOut)) /\ ~opts.force
    THEN SessionExistsErr(opts)
    ELSE CheckInputs(fsys, opts.inputs, 1)

(***************************************************************************)
(* The generation run                                                      *)
(***************************************************************************)
NameW == <<"w">>
NameD == <<"d">>
NameNoDir == <<"nodir">>
NameOutPng == <<"out", "png">>
NameOutPNG == <<"out", "PNG">>
NameOutSess == <<"out", "session", "json">>
NameSrcSess == <<"src", "session", "json">>
NameInPng == <<"in", "png">>
NameBigPng == <<"big", "png">>
NameInTxt == <<"in", "txt">>
NameGonePng == <<"gone", "png">>
NameSecretPng == <<"secret", "png">>

OldImage == File("ok", BadSyntax, 3)
NullEntry ==
    File("ok", JObject(JString("flash-3.1"), HArray(<<UserTurn, NilContent>>),
                       FALSE), 2)
ProSession ==
    File("ok", JObject(JString("pro-3.0"), HArray(<<UserTurn, ModelTurnSigned>>),
                       FALSE), 2)

\* the filesystems a run starts on: /w is the working directory
RunTrees ==
    {[l \in {<<>>, <<NameW>>, <<NameW, NameD>>, <<NameW, NameOutPng>>,
             <<NameW, NameOutSess>>, <<NameW, NameSrcSess>>,
             <<NameW, NameInPng>>, <<NameW, NameBigPng>>, <<NameW, NameInTxt>>,
             <<NameW, NameSecretPng>>} |->
        CASE l \in {<<>>, <<NameW>>, <<NameW, NameD>>} -> Directory
          [] l = <<NameW, NameOutPng>> -> out
          [] l = <<NameW, NameOutSess>> -> outsess
          [] l = <<NameW, NameSrcSess>> -> src
          [] l = <<NameW, NameBigPng>> ->
                 File("ok", BadSyntax, maxInputFileSize + 1)
          [] l = <<NameW, NameSecretPng>> -> File("noaccess", BadSyntax, 1)
          [] OTHER -> File("ok", BadSyntax, 1)] :
     out \in {NoFile, OldImage, ValidFlash},
     outsess \in {NoFile, ValidFlash, Corrupt},
     src \in {NoFile, ValidFlash, ValidLegacy, ProSession, NullEntry}}

RunOutputs ==
    {Rel(<<NameOutPng>>), Rel(<<Dot, NameOutPng>>), Abs(<<NameW, NameOutPng>>),
     Rel(<<NameNoDir, NameOutPng>>), Rel(<<NameD, NameOutPng>>),
     Rel(<<NameOutPNG>>)}

RunSessions ==
    {NoPath, Rel(<<NameOutSess>>), Rel(<<NameD, DotDot, NameOutSess>>),
     Abs(<<NameW, NameOutSess>>), Rel(<<NameSrcSess>>),
     Rel(<<NameNoDir, DotDot, NameOutSess>>), Rel(<<NameNoDir, NameOutSess>>),
     Rel(<<NameOutPng>>)}

BaseArgs(o, s, m, f) ==
    [badflag |-> FALSE, extra |-> FALSE, prompt |-> "a cat", output |-> o,
     inputs |-> <<>>, session |-> s, model |-> m, ratio |-> "1:1",
     size |-> "", force |-> f, apiKey |-> TRUE]

PlainArgs == BaseArgs(Rel(<<NameD, NameOutPng>>), NoPath, "flash", FALSE)
In(n) == Rel(<<n>>)

\* the command lines a run is started with
RunArgs ==
    {BaseArgs(o, s, m, f) : o \in RunOutputs, s \in RunSessions,
                            m \in {"flash", "flash-2.5", "pro"}, f \in BOOLEAN}
    \cup {[PlainArgs EXCEPT !.badflag = TRUE], [PlainArgs EXCEPT !.extra = TRUE],
          [PlainArgs EXCEPT !.prompt = " "], [PlainArgs EXCEPT !.output = NoPath],
          [PlainArgs EXCEPT !.model = "turbo"], [PlainArgs EXCEPT !.ratio = "5:4"],
          [PlainArgs EXCEPT !.size = "2k"],
          [PlainArgs EXCEPT !.size = "2k", !.model = "flash-2.5"],
          [PlainArgs EXCEPT !.size = "8K"],
          [PlainArgs EXCEPT !.apiKey = FALSE],
          [PlainArgs EXCEPT !.output = Rel(<<NameSrcSess>>)],
          [PlainArgs EXCEPT !.inputs = <<In(NameInPng)>>],
          [PlainArgs EXCEPT !.inputs = <<In(NameInPng), In(NameGonePng)>>],
          [PlainArgs EXCEPT !.inputs = <<In(NameSecretPng)>>],
          [PlainArgs EXCEPT !.inputs = <<In(NameInTxt)>>],
          [PlainArgs EXCEPT !.inputs = <<In(NameBigPng)>>],
          [PlainArgs EXCEPT !.model = "flash-2.5",
              !.inputs = <<In(NameInPng), In(NameInPng), In(NameInPng),
                           In(NameInPng)>>]}

(***************************************************************************)
(* The metadata record and its embedding.  The JSON text of a record is a  *)
(* sequence of bytes: '{', then for every member that is written a key     *)
(* byte, the bytes of its value and ',', then '}'.  A string is written as *)
(* one byte, its place in StringTable; a file name as its place in         *)
(* NameTable.                                                              *)
(***************************************************************************)
metadataVersion == 1
metadataKey == <<98, 97, 110, 97, 110, 97>>

imageMetadata(model, modelID, ratio, size, inputs, session, timestamp, prompts) ==
    [Version |-> metadataVersion, Model |-> model, ModelID |-> modelID,
     Ratio |-> ratio, Size |-> size, Inputs |-> inputs, Session |-> session,
     Timestamp |-> timestamp, Prompts |-> prompts]
promptEntry(role, text) == [Role |-> role, Text |-> text]

PathBase_FirstElement(p) ==
    LET names == SelectSeq(p.elems, LAMBDA n : n # EmptyName) IN
    IF names = <<>> THEN (IF p.abs THEN EmptyName ELSE Dot)
    ELSE names[1]

\* filepath.Base: the last name of the path, trailing separators dropped
PathBase(p) ==
    LET names == SelectSeq(p.elems, LAMBDA n : n # EmptyName) IN
    IF names = <<>> THEN (IF p.abs THEN EmptyName ELSE Dot)
    ELSE names[Len(names)]

\* the text of one history entry: its text parts, counted (the loop joins
\* them with newlines); parts that are nil or carry inline data are skipped
TextOf(c) ==
    Cardinality({k \in 1..Len(c.Parts) :
                    ~c.Parts[k].nil /\ c.Parts[k].kind = "text"})

RECURSIVE PromptsOf(_, _)
PromptsOf(history, i) ==
    IF i > Len(history) THEN <<>>
    ELSE IF history[i].nil \/ TextOf(history[i]) = 0
    THEN PromptsOf(history, i + 1)
    ELSE <<promptEntry(history[i].Role, TextOf(history[i]))>>
         \o PromptsOf(history, i + 1)

\* time.Now().UTC().Format(time.RFC3339)
Now == "now"

buildMetadata(opts, history) ==
    imageMetadata(opts.model, opts.modelID, opts.ratio, opts.size,
                  [i \in 1..Len(opts.inputs) |-> PathBase(opts.inputs[i])],
                  IF opts.session # NoPath THEN PathBase(opts.session)
                  ELSE EmptyName,
                  Now, PromptsOf(history, 1))

StringTable ==
    <<"", "flash", "pro", "flash-2.5", "flash-3.1", "pro-3.0", "turbo">>
    \o <<modelDefs["flash-2.5"].ID, modelDefs["flash-3.1"].ID,
         modelDefs["pro-3.0"].ID>>
    \o <<"1:1", "5:4", "1K", "2K", "4K", "now", "user", "model">>
PlaceIn(table, x) == CHOOSE i \in 1..Len(table) : table[i] = x
StringByte(str) == 64 + PlaceIn(StringTable, str)

\* the names a run can be given
NameTable ==
    <<Dot, DotDot, EmptyName, NameW, NameD, NameNoDir, NameOutPng, NameOutPNG,
      NameOutSess, NameSrcSess, NameInPng, NameBigPng, NameInTxt, NameGonePng,
      NameSecretPng>>
NameByte(n) == 32 + PlaceIn(NameTable, n)

\* one member of the JSON object: key, value, ','
Member(key, bytes) == <<key>> \o bytes \o <<44>>
\* the entries of prompts, two bytes each: role and text
PromptBytes(prompts) ==
    [k \in 1..(2 * Len(prompts)) |->
        IF k % 2 = 1 THEN StringByte(prompts[(k + 1) \div 2].Role)
        ELSE 48 + prompts[k \div 2].Text]

\* json.Marshal(meta): size, inputs and session are omitempty
jsonMarshalMeta(meta) ==
    <<123>>
    \o Member(118, <<48 + meta.Version>>)
    \o Member(109, <<StringByte(meta.Model)>>)
    \o Member(100, <<StringByte(meta.ModelID)>>)
    \o Member(114, <<StringByte(meta.Ratio)>>)
    \o (IF meta.Size = "" THEN <<>>
        ELSE Member(122, <<StringByte(meta.Size)>>))
    \o (IF meta.Inputs = <<>> THEN <<>>
        ELSE Member(105, [i \in 1..Len(meta.Inputs) |-> NameByte(meta.Inputs[i])]))
    \o (IF meta.Session = EmptyName THEN <<>>
        ELSE Member(115, <<NameByte(meta.Session)>>))
    \o Member(116, <<StringByte(meta.Timestamp)>>)
    \o Member(112, PromptBytes(meta.Prompts))
    \o <<125>>

\* embedMetadata: the bytes come back as they are when they are no PNG or
\* pngSetText fails (json.Marshal of the record cannot fail)
embedMetadata(imageData, meta) ==
    IF ~pngHasSignature(imageData) THEN imageData
    ELSE LET r == pngSetText(imageData, metadataKey,
                             jsonMarshalMeta(meta))
         IN IF ~r.err.ok THEN imageData ELSE r.result.elems

\* the content of a file that holds an image: no JSON, and its bytes
ImageBytes(b) == [wf |-> FALSE, bytes |-> b]
ImageFile(b) == File("ok", ImageBytes(b), Len(b))

WriteOp(l, ok) == [op |-> "write", at |-> l, ok |-> ok]
GenerateOp == [op |-> "generate", at |-> <<>>, ok |-> TRUE]

\* json.Marshal(sessionData{...}): model is always written, a nil history
\* as null; size and usage are omitempty
Marshal(sess) ==
    JSession(JString(sess.Model),
             IF sess.Size = "" THEN Absent ELSE JString(sess.Size),
             IF sess.History.nil THEN HNull ELSE HArray(sess.History.elems),
             IF sess.Usage.nil THEN UAbsent
             ELSE UObject(sess.Usage.PromptTokens, sess.Usage.CandidateTokens),
             FALSE)

SessionOf_ModelID(l) ==
    sessionData(l.opts.modelID, l.opts.size, l.chat, l.usage)

\* lines 1324-1331: the session run serialises, with the counters of the
\* one call when the response carried them
SessionOf(l) == sessionData(l.opts.model, l.opts.size, l.chat, l.usage)

Stage(name) == loc' = [loc EXCEPT !.stage = name]

\* lines 1250-1253
RunParseFlags ==
    /\ pc = "start"
    /\ LET r == parseAndValidateFlags(cmd.args) IN
       IF ~r.err.ok THEN Finish(r.err) /\ UNCHANGED loc
       ELSE /\ pc' = "validatePaths"
            /\ loc' = [loc EXCEPT !.opts = r.opts]
            /\ UNCHANGED ret
    /\ UNCHANGED <<fs, fs0, cmd, trace>>

\* lines 1255-1257
RunValidatePaths ==
    /\ pc = "validatePaths"
    /\ LET e == validatePaths(fs, loc.opts) IN
       IF ~e.ok THEN Finish(e) /\ Stage("validatePaths")
       ELSE pc' = "loadSession" /\ Stage("validatePaths") /\ UNCHANGED ret
    /\ UNCHANGED <<fs, fs0, cmd, trace>>

\* lines 1259-1265
RunLoadSession ==
    /\ pc = "loadSession"
    /\ IF loc.opts.session = NoPath
       THEN /\ pc' = "generate"
            /\ loc' = [loc EXCEPT !.stage = "loadSession"]
            /\ UNCHANGED ret
       ELSE LET r == loadSession(Stat(fs, loc.opts.session), loc.opts.session,
                                 loc.opts.model)
            IN IF r.panic THEN Finish(Panic) /\ Stage("loadSession")
               ELSE IF ~r.err.ok THEN Finish(r.err) /\ Stage("loadSession")
               ELSE /\ pc' = "generate"
                    /\ loc' = [loc EXCEPT !.stage = "loadSession",
                                          !.history = r.history]
                    /\ UNCHANGED ret
    /\ UNCHANGED <<fs, fs0, cmd, trace>>

GenerationOutcomes ==
    {"client", "chat", "input", "transport", "blocked", "nocandidate",
     "nocontent", "noimage", "ok"}

GenerationError(o) ==
    CASE o = "client" -> Errorf(<<"failed to create client: ">>)
      [] o = "chat" -> Errorf(<<"failed to create chat: ">>)
      [] o = "input" -> Errorf(<<"failed to read input image ">>)
      [] o = "transport" -> Errorf(<<"generation failed: ">>)
      [] o = "blocked" -> Errorf(<<"prompt blocked (reason: ">>)
      [] o = "nocandidate" -> Errorf(<<"no response from model">>)
      [] o = "nocontent" -> Errorf(<<"generation blocked (reason: ">>)
      [] o = "noimage" -> Errorf(<<"model returned no image data">>)
      [] OTHER -> Nil

IEND == <<73, 69, 78, 68>>
\* image bytes the API can answer with
PlainPng == pngSignature \o HeaderTwo \o Chunk(IEND, <<>>)
JpegBytes == <<255, 216, 255, 224, 0, 16>>
\* a PNG that already holds a record under the metadata key
TaggedPng ==
    pngSignature \o HeaderTwo \o Chunk(tEXt, metadataKey \o <<0, 123, 125>>)
    \o Chunk(IEND, <<>>)
\* a PNG cut inside its first chunk
CutPng == pngSignature \o <<0, 0, 0, 13>> \o IHDR \o <<0, 0>>
ImagePayloads == {PlainPng, JpegBytes, TaggedPng, CutPng}

\* result.UsageMetadata: absent, or the token counts of the call
RunUsages == {NilUsage, usageData(1000, 200)}

\* outcomes of the generation call after which run returns an error
GenerationFailures ==
    {"transport", "blocked", "nocandidate", "nocontent", "noimage"}

RunGenerate_WriteWithoutImage ==
    /\ pc = "generate"
    /\ \E o \in GenerationOutcomes, img \in ImagePayloads, u \in RunUsages :
          /\ o = "input" => loc.opts.inputs # <<>>
          /\ o # "ok" => (img = PlainPng /\ u = NilUsage)
          /\ trace' = IF o \in {"client", "chat", "input"} THEN trace
                      ELSE Append(trace, GenerateOp)
          /\ IF o \notin {"ok", "noimage"}
             THEN /\ Finish(GenerationError(o))
                  /\ loc' = [loc EXCEPT !.stage = "generate", !.outcome = o]
             ELSE /\ pc' = "writeOutput"
                  /\ loc' = [loc EXCEPT !.stage = "generate", !.outcome = o,
                        !.image = IF o = "ok" THEN img ELSE <<>>,
                        !.usage = u,
                        !.chat = Slice(loc.history.elems
                                       \o <<UserTurn, ModelTurnSigned>>)]
                  /\ UNCHANGED ret
    /\ UNCHANGED <<fs, fs0, cmd>>

\* lines 1267-1310: the client, the chat, the message parts, the one
\* SendMessage call and extractResult
RunGenerate ==
    /\ pc = "generate"
    /\ \E o \in GenerationOutcomes, img \in ImagePayloads, u \in RunUsages :
          /\ o = "input" => loc.opts.inputs # <<>>
          /\ o # "ok" => (img = PlainPng /\ u = NilUsage)
          /\ trace' = IF o \in {"client", "chat", "input"} THEN trace
                      ELSE Append(trace, GenerateOp)
          /\ IF o # "ok"
             THEN /\ Finish(GenerationError(o))
                  /\ loc' = [loc EXCEPT !.stage = "generate", !.outcome = o]
             ELSE /\ pc' = "writeOutput"
                  /\ loc' = [loc EXCEPT !.stage = "generate", !.outcome = o,
                        !.image = img,
                        !.usage = u,
                        !.chat = Slice(loc.history.elems
                                       \o <<UserTurn, ModelTurnSigned>>)]
                  /\ UNCHANGED ret
    /\ UNCHANGED <<fs, fs0, cmd>>

\* os.WriteFile(p, f): creates or truncates the file; fails when the path
\* leads nowhere or to a directory, and may fail for the OS's own reasons
CanWrite(fsys, p) ==
    LET r == Resolve(fsys, p) IN
    /\ r.ok
    /\ r.at # <<>>
    /\ IsDir(At(fsys, Parent(r.at)))
    /\ ~IsDir(At(fsys, r.at))

\* what a write that failed half-way leaves behind
Truncated == File("ok", BadSyntax, 0)

WriteFile(p, f, stage, next, failure) ==
    \/ /\ CanWrite(fs, p)
       /\ fs' = Put(fs, Resolve(fs, p).at, f)
       /\ trace' = Append(trace, WriteOp(Resolve(fs, p).at, TRUE))
       /\ next
       /\ Stage(stage)
    \/ /\ CanWrite(fs, p)
       /\ fs' = Put(fs, Resolve(fs, p).at, Truncated)
       /\ trace' = Append(trace, WriteOp(Resolve(fs, p).at, FALSE))
       /\ Finish(failure)
       /\ Stage(stage)
    \/ /\ fs' = fs
       /\ trace' = Append(trace, WriteOp(Resolve(fs, p).at, FALSE))
       /\ Finish(failure)
       /\ Stage(stage)

\* lines 1312-1318: the metadata and the output artifact
RunWriteOutput ==
    /\ pc = "writeOutput"
    /\ WriteFile(loc.opts.output,
                 ImageFile(embedMetadata(loc.image,
                                         buildMetadata(loc.opts, loc.chat.elems))),
                 "writeOutput",
                 pc' = "writeSession" /\ UNCHANGED ret,
                 Errorf(<<"failed to write output: ">>))
    /\ UNCHANGED <<fs0, cmd>>

RunWriteSession_RollBack ==
    /\ pc = "writeSession"
    /\ LET at == Resolve(fs, sessionPath(loc.opts.output)).at IN
       \/ /\ CanWrite(fs, sessionPath(loc.opts.output))
          /\ fs' = Put(fs, at, File("ok", Marshal(SessionOf(loc)), 5))
          /\ trace' = Append(trace, WriteOp(at, TRUE))
          /\ Finish(Nil)
          /\ Stage("writeSession")
       \/ /\ fs' = Remove(fs, Resolve(fs, loc.opts.output).at)
          /\ trace' = Append(trace, WriteOp(at, FALSE))
          /\ Finish(Errorf(<<"failed to write session: ">>))
          /\ Stage("writeSession")
    /\ UNCHANGED <<fs0, cmd>>

\* lines 1320-1341: the session file beside the output
RunWriteSession ==
    /\ pc = "writeSession"
    /\ WriteFile(sessionPath(loc.opts.output),
                 File("ok", Marshal(SessionOf(loc)), 5),
                 "writeSession", Finish(Nil),
                 Errorf(<<"failed to write session: ">>))
    /\ UNCHANGED <<fs0, cmd>>

InitRun ==
    /\ fs \in RunTrees
    /\ fs0 = fs
    /\ cmd \in [name : {"run"}, args : RunArgs]
    /\ pc = "start"
    /\ loc = [stage |-> "parseAndValidateFlags", opts |-> NoOptions,
              history |-> NilSlice, chat |-> NilSlice, outcome |-> "",
              image |-> <<>>, usage |-> NilUsage]
    /\ ret = Nil
    /\ trace = <<>>

NextRun ==
    \/ RunParseFlags
    \/ RunValidatePaths
    \/ RunLoadSession
    \/ RunGenerate
    \/ RunWriteOutput
    \/ RunWriteSession

SpecRun == InitRun /\ [][NextRun]_vars

(***************************************************************************)
(* Claims about the paths of a run                                         *)
(***************************************************************************)
IsCollision(err) ==
    ~err.ok /\ Contains(err.msg, " collides with -s source (use -f to overwrite)")
IsNoOutputDir(err) == ~err.ok /\ Contains(err.msg, "output directory ")
IsAlreadyExists(err) ==
    ~err.ok /\ Contains(err.msg, " already exists (use -f to overwrite)")

\* validatePaths has been called
PathsValidated == loc.stage # "parseAndValidateFlags"
\* the derived session path is the -s path, after cleaning
DerivedIsSource ==
    /\ cmd.args.session # NoPath
    /\ Clean(sessionPath(cmd.args.output)) = Clean(cmd.args.session)
RejectedByValidatePaths ==
    /\ pc = "done"
    /\ loc.stage = "validatePaths"
    /\ ~ret.ok
    /\ trace = <<>>
    /\ fs = fs0
\* the -s source keeps its content and no write is aimed at it
SourceUntouched ==
    LET r == Resolve(fs0, cmd.args.session) IN
    (cmd.args.session # NoPath /\ r.ok /\ Exists(At(fs0, r.at))) =>
        /\ At(fs, r.at) = At(fs0, r.at)
        /\ \A k \in 1..Len(trace) : trace[k].at # r.at

(* C5 as stated: without -f a run whose derived session path equals the -s *)
(* path after cleaning fails in validatePaths with the collision error     *)
(* before any generation call or write, and in every run without -f the -s *)
(* source has the same content after the run as before.                    *)
C5_CollisionError ==
    ~cmd.args.force =>
        /\ (PathsValidated /\ DerivedIsSource)
              => (RejectedByValidatePaths /\ IsCollision(ret))
        /\ SourceUntouched

(* C5 amended: without -f a run whose derived session path equals the -s   *)
(* path after cleaning fails in validatePaths before any generation call   *)
(* or write: with the collision error when the directory of the output     *)
(* exists, with the output-directory error when it does not.  In every run *)
(* without -f the -s source has the same content after the run as before,  *)
(* and no write is aimed at it.                                            *)
C5_SourcePreserved ==
    ~cmd.args.force =>
        /\ (PathsValidated /\ DerivedIsSource) =>
              /\ RejectedByValidatePaths
              /\ IF IsDir(Stat(fs0, Dir(cmd.args.output)))
                 THEN IsCollision(ret) ELSE IsNoOutputDir(ret)
        /\ SourceUntouched

C5_Witness ==
    /\ pc = "done"
    /\ ~cmd.args.force
    /\ cmd.args.output = Rel(<<Dot, NameOutPng>>)
    /\ cmd.args.session = Rel(<<NameD, DotDot, NameOutSess>>)
    /\ fs0[<<NameW, NameOutSess>>] = ValidFlash
    /\ IsCollision(ret)
    /\ fs = fs0

WrittenPlaces ==
    {Resolve(fs0, cmd.args.output).at,
     Resolve(fs0, sessionPath(cmd.args.output)).at}

(* C6: without -f validatePaths rejects the run when the output path or    *)
(* sessionPath(output) exists (also when -s names another file), so a run  *)
(* without -f never overwrites a file that existed when it started; the    *)
(* only files a run writes are the output path and sessionPath(output).    *)
(* With -f neither existence check rejects the run.                        *)
C6_NoOverwriteWithoutForce ==
    /\ (/\ ~cmd.args.force
        /\ PathsValidated
        /\ \/ StatOK(Stat(fs0, cmd.args.output))
           \/ StatOK(Stat(fs0, sessionPath(cmd.args.output))))
          => RejectedByValidatePaths
    /\ ~cmd.args.force =>
          /\ \A l \in DOMAIN fs0 : Exists(fs0[l]) => At(fs, l) = fs0[l]
          /\ \A k \in 1..Len(trace) :
                trace[k].op = "write" => ~Exists(At(fs0, trace[k].at))
    /\ \A k \in 1..Len(trace) :
          trace[k].op = "write" => trace[k].at \in WrittenPlaces
    /\ \A l \in DOMAIN fs \cup DOMAIN fs0 :
          At(fs, l) # At(fs0, l) => l \in WrittenPlaces
    /\ (cmd.args.force /\ pc = "done") =>
          (~IsAlreadyExists(ret) /\ ~IsCollision(ret))

C6_Witness ==
    /\ pc = "done"
    /\ ~cmd.args.force
    /\ cmd.args.output = Rel(<<NameOutPng>>)
    /\ cmd.args.session = Rel(<<NameSrcSess>>)
    /\ fs0[<<NameW, NameSrcSess>>] = ValidFlash
    /\ fs0[<<NameW, NameOutPng>>] = NoFile
    /\ fs0[<<NameW, NameOutSess>>] = Corrupt
    /\ IsAlreadyExists(ret)
    /\ fs = fs0

(***************************************************************************)
(* Claims about the model check of validateSessionFile                     *)
(***************************************************************************)
IsUnknownModel(err) == ~err.ok /\ Contains(err.msg, "unknown model ")
\* the validation loop of runClean has gone through every listed file
ScanDone ==
    /\ pc \in {"delete", "done"}
    /\ "paths" \in DOMAIN loc
    /\ loc.i > Len(loc.paths)
InSkipped(l) == \E k \in 1..Len(loc.skipped) : loc.skipped[k] = l
\* the listing has been printed
Listed == ScanDone /\ Len(loc.listed) = Len(loc.files) /\ loc.files # <<>>

CeilHalf(n) == CHOOSE t \in 0..n : 2 * t >= n /\ (t = 0 \/ 2 * (t - 1) < n)
HistoryLen == Len(cmd.file.raw.history.v)

(* C12: for every accepted session with n history entries,                 *)
(* validateSessionFile and analyzeSession both report turns = ceil(n/2)    *)
(* (0 for 0, 1 for 1, 2 for 3), so clean and cost agree on the turn count  *)
(* of the same file.                                                       *)
C12_TurnsCeilHalf ==
    /\ (pc = "validateSessionFile" /\ ret.ok) =>
          loc.info.Turns = CeilHalf(HistoryLen)
    /\ (pc = "analyzeSession" /\ ret.ok) =>
          loc.cb.Turns = CeilHalf(HistoryLen)
    /\ (/\ pc \in {"validateSessionFile", "analyzeSession"}
        /\ validateSessionFile(cmd.file, cmd.path).err.ok
        /\ analyzeSession(cmd.file, cmd.path).err.ok) =>
          validateSessionFile(cmd.file, cmd.path).info.Turns
              = analyzeSession(cmd.file, cmd.path).cb.Turns
    /\ CeilHalf(0) = 0 /\ CeilHalf(1) = 1 /\ CeilHalf(3) = 2

C12_Witness ==
    /\ pc = "analyzeSession"
    /\ ret.ok
    /\ HistoryLen = 3
    /\ loc.cb.Turns = 2
    /\ validateSessionFile(cmd.file, cmd.path).err.ok
    /\ validateSessionFile(cmd.file, cmd.path).info.Turns = 2

(***************************************************************************)
(* Claims about generation and the two writes of a run                     *)
(***************************************************************************)
Writes == SelectSeq(trace, LAMBDA t : t.op = "write")
Generations == SelectSeq(trace, LAMBDA t : t.op = "generate")
OutputPlace == Resolve(fs0, cmd.args.output).at
SessionPlace == Resolve(fs0, sessionPath(cmd.args.output)).at
\* the artifact run hands to os.WriteFile
Artifact ==
    ImageFile(embedMetadata(loc.image, buildMetadata(loc.opts, loc.chat.elems)))
IsSessionWriteError(err) ==
    ~err.ok /\ Contains(err.msg, "failed to write session: ")
IsOutputWriteError(err) ==
    ~err.ok /\ Contains(err.msg, "failed to write output: ")

(* C16: when the generation call returns a transport error, is blocked,    *)
(* returns no candidate or returns no image data, run returns an error and *)
(* neither the output artifact nor the session file has been created or    *)
(* modified.                                                               *)
C16_FailedGenerationWritesNothing ==
    loc.outcome \in GenerationFailures =>
        /\ pc = "done"
        /\ ~ret.ok
        /\ ret = GenerationError(loc.outcome)
        /\ Writes = <<>>
        /\ fs = fs0
        /\ At(fs, OutputPlace) = At(fs0, OutputPlace)
        /\ At(fs, SessionPlace) = At(fs0, SessionPlace)

C16_Witness ==
    /\ pc = "done"
    /\ loc.outcome = "noimage"
    /\ cmd.args.force
    /\ Len(Generations) = 1
    /\ fs0[<<NameW, NameOutPng>>] = OldImage
    /\ fs[<<NameW, NameOutPng>>] = OldImage
    /\ OutputPlace = <<NameW, NameOutPng>>

(* C17: the output artifact is written before the session file, and the    *)
(* session file is written only if the artifact write succeeded; if the    *)
(* session write then fails, run returns a session-write error and the     *)
(* artifact it wrote stays on disk.                                        *)
C17_ArtifactThenSession ==
    LET w == Writes IN
    /\ Len(w) <= 2
    /\ Len(w) >= 1 => w[1].at = OutputPlace
    /\ (Len(w) = 1 /\ ~w[1].ok) => (pc = "done" /\ IsOutputWriteError(ret))
    /\ (Len(w) = 1 /\ w[1].ok) =>
          (pc = "writeSession" /\ At(fs, OutputPlace) = Artifact)
    /\ Len(w) = 2 =>
          /\ w[1].ok
          /\ w[2].at = SessionPlace
          /\ SessionPlace # OutputPlace
          /\ pc = "done"
          /\ At(fs, OutputPlace) = Artifact
          /\ ~w[2].ok => IsSessionWriteError(ret)
          /\ w[2].ok => ret.ok

C17_Witness ==
    /\ pc = "done"
    /\ Len(Writes) = 2
    /\ ~Writes[2].ok
    /\ IsSessionWriteError(ret)
    /\ loc.image = PlainPng
    /\ fs0[<<NameW, NameOutPng>>] = NoFile
    /\ fs[<<NameW, NameOutPng>>] = Artifact
    /\ fs[<<NameW, NameOutSess>>] = Truncated

(* C18: in one invocation the generation capability is invoked at most     *)
(* once, never again after an error or a block, and only after the flags,  *)
(* the paths (output directory, collisions, and existence, extension and   *)
(* size of every input) and the session have been checked and loaded       *)
(* without error.                                                          *)
C18_OneGenerationAfterChecks ==
    /\ Len(Generations) <= 1
    /\ Len(Generations) = 1 =>
          LET p == parseAndValidateFlags(cmd.args) IN
          /\ p.err.ok
          /\ loc.opts = p.opts
          /\ validatePaths(fs0, p.opts).ok
          /\ IsDir(Stat(fs0, Dir(p.opts.output)))
          /\ \A i \in 1..Len(p.opts.inputs) :
                LET info == Stat(fs0, p.opts.inputs[i]) IN
                /\ StatOK(info)
                /\ mimeFromPath(p.opts.inputs[i])
                /\ info.size <= maxInputFileSize
          /\ p.opts.session # NoPath =>
                LET r == loadSession(Stat(fs0, p.opts.session), p.opts.session,
                                     p.opts.model)
                IN r.err.ok /\ ~r.panic /\ loc.history = r.history
          /\ trace[1].op = "generate"
    /\ loc.outcome \in GenerationFailures =>
          (pc = "done" /\ Len(Generations) = 1)

C18_Witness ==
    /\ pc = "done"
    /\ loc.outcome = "blocked"
    /\ Len(Generations) = 1
    /\ cmd.args.inputs = <<In(NameInPng)>>

(* C19: every output artifact written by a successful run starts with the  *)
(* 8-byte PNG signature and holds a single text record under the key       *)
(* "banana" whose value is the JSON-encoded metadata record of that run,   *)
(* whatever image bytes the generation capability returned.                *)
C19_ArtifactCarriesMetadata ==
    (pc = "done" /\ ret.ok) =>
        LET bytes == At(fs, OutputPlace).raw.bytes IN
        /\ pngHasSignature(bytes)
        /\ Cardinality({o \in WholeChunks(bytes, 8) :
                            TextChunkWithKey(bytes, o, metadataKey)}) = 1
        /\ pngGetText(bytes, metadataKey).value
               = jsonMarshalMeta(buildMetadata(loc.opts, loc.chat.elems))

(***************************************************************************)
(* runMeta                                                                 *)
(***************************************************************************)
\* JSON texts, in the bytes of jsonMarshalMeta: null, a number, an object
IsNullText(b) == b = <<110, 117, 108, 108>>
IsNumberText(b) == b # <<>> /\ \A i \in 1..Len(b) : b[i] \in 48..57
\* '{', members that each end in ',' and are not empty, '}'
IsObjectText(b) ==
    /\ Len(b) >= 2
    /\ b[1] = 123
    /\ b[Len(b)] = 125
    /\ Len(b) > 2 => (b[Len(b) - 1] = 44 /\ b[2] # 44)
    /\ \A i \in 2..(Len(b) - 2) : ~(b[i] = 44 /\ b[i + 1] = 44)
    /\ \A i \in 2..(Len(b) - 1) : b[i] \notin {0, 123, 125}

\* json.Unmarshal([]byte(raw), &meta): "" for success, else the kind of
\* error; null leaves the record as it is, a number is of the wrong type
jsonUnmarshalMeta(b) ==
    IF IsNullText(b) \/ IsObjectText(b) THEN ""
    ELSE IF IsNumberText(b) THEN "type"
    ELSE "syntax"

UsageMeta == Errorf(<<"usage: banana meta <image.png>">>)

runMeta_NoSignatureCheck(f, args) ==
    IF Len(args) # 1 THEN UsageMeta
    ELSE IF f.perm # "ok" THEN Errorf(<<"failed to read ", "%q">>)
    ELSE LET data == f.raw.bytes
             raw == pngGetText(data, metadataKey)
         IN IF ~raw.err.ok
            THEN Errorf(<<"no banana metadata found in ", "%q">>)
            ELSE IF jsonUnmarshalMeta(raw.value) # ""
            THEN Errorf(<<"failed to parse metadata: ">>)
            ELSE Nil

runMeta(f, args) ==
    IF Len(args) # 1 THEN UsageMeta
    ELSE IF f.perm # "ok" THEN Errorf(<<"failed to read ", "%q">>)
    ELSE LET data == f.raw.bytes
             raw == pngGetText(data, metadataKey)
         IN IF ~pngHasSignature(data)
            THEN Errorf(<<"%q", " is not a PNG file (metadata is only embedded in PNG output)">>)
            ELSE IF ~raw.err.ok
            THEN Errorf(<<"no banana metadata found in ", "%q">>)
            ELSE IF jsonUnmarshalMeta(raw.value) # ""
            THEN Errorf(<<"failed to parse metadata: ">>)
            ELSE Nil

(***************************************************************************)
(* SpecMeta: runMeta applied to one command line and one file.             *)
(***************************************************************************)
Record(value) == Chunk(tEXt, metadataKey \o <<0>> \o value)
\* the record of a run with one input and a session
SampleRecord ==
    jsonMarshalMeta(imageMetadata("flash-3.1", modelDefs["flash-3.1"].ID, "1:1",
                                  "2K", <<NameInPng>>, NameSrcSess, Now,
                                  <<promptEntry("user", 1)>>))
MetaChunks ==
    {TextK, Chunk(IEND, <<>>), Record(SampleRecord), Record(<<123, 125>>),
     Record(<<110, 117, 108, 108>>), Record(<<52, 50>>), Record(<<>>),
     Record(<<123, 109>>), Chunk(tEXt, metadataKey)}

MetaBuffers ==
    {DropLast(pngSignature \o HeaderTwo \o Concat(cs), n) :
        cs \in SeqsUpTo(MetaChunks, MaxChunks), n \in {0, 1}}
    \cup ImagePayloads
    \cup {<<>>, Tail(pngSignature) \o HeaderTwo \o Record(SampleRecord),
          pngSignature \o Record(SampleRecord)}

MetaFiles ==
    {NoFile, Directory, File("unreadable", ImageBytes(PlainPng), Len(PlainPng))}
    \cup {ImageFile(b) : b \in MetaBuffers}

InitMeta ==
    /\ cmd \in [name : {"meta"}, file : MetaFiles,
                args : {<<>>, <<"image.png">>, <<"image.png", "other.png">>}]
    /\ pc = "call"
    /\ loc = [op |-> ""]
    /\ ret = Nil
    /\ fs = <<>>
    /\ fs0 = <<>>
    /\ trace = <<>>

MetaRun ==
    /\ pc = "call"
    /\ pc' = "runMeta"
    /\ ret' = runMeta(cmd.file, cmd.args)
    /\ loc' = [op |-> "runMeta"]
    /\ UNCHANGED <<fs, fs0, cmd, trace>>

NextMeta == MetaRun

SpecMeta == InitMeta /\ [][NextMeta]_vars

(***************************************************************************)
(* Claims about runMeta                                                    *)
(***************************************************************************)
IsMetaReadError(err) == ~err.ok /\ Contains(err.msg, "failed to read ")
IsNotPng(err) ==
    ~err.ok /\ Contains(err.msg, " is not a PNG file (metadata is only embedded in PNG output)")
IsNoMetadata(err) == ~err.ok /\ Contains(err.msg, "no banana metadata found in ")
IsMetaParseError(err) == ~err.ok /\ Contains(err.msg, "failed to parse metadata: ")
MetaClasses(err) ==
    {c \in {"a", "b", "c", "d"} :
        \/ c = "a" /\ IsMetaReadError(err)
        \/ c = "b" /\ IsNotPng(err)
        \/ c = "c" /\ IsNoMetadata(err)
        \/ c = "d" /\ IsMetaParseError(err)}

\* the value of the first record under the metadata key
FirstRecord(bytes) ==
    LET at == {o \in WholeChunks(bytes, 8) :
                  TextChunkWithKey(bytes, o, metadataKey)}
        o == CHOOSE x \in at : \A y \in at : x <= y
        n == Uint32(SubSeq(bytes, o + 1, o + 4))
    IN SubSeq(bytes, o + 9 + Len(metadataKey) + 1, o + 8 + n)
Decodable(b) == IsNullText(b) \/ IsObjectText(b)

(* C20: runMeta on an artifact path has four failures that can be told     *)
(* apart: (a) the file cannot be read, (b) the bytes lack the PNG          *)
(* signature, (c) the bytes are PNG and hold no record under the metadata  *)
(* key, (d) a record is there and is no decodable JSON; it succeeds only   *)
(* when a decodable record is there.                                       *)
C20_MetaErrorClasses ==
    (pc = "runMeta" /\ Len(cmd.args) = 1) =>
        LET f == cmd.file
            readable == f.perm = "ok"
            png == readable /\ pngHasSignature(f.raw.bytes)
            present == png /\ KeyOccurs(f.raw.bytes, metadataKey)
            decodable == present /\ Decodable(FirstRecord(f.raw.bytes))
        IN /\ ~ret.ok => Cardinality(MetaClasses(ret)) = 1
           /\ ~readable <=> MetaClasses(ret) = {"a"}
           /\ (readable /\ ~png) <=> MetaClasses(ret) = {"b"}
           /\ (png /\ ~present) <=> MetaClasses(ret) = {"c"}
           /\ (present /\ ~decodable) <=> MetaClasses(ret) = {"d"}
           /\ decodable <=> ret.ok

C20_Witness ==
    /\ pc = "runMeta"
    /\ cmd.args = <<"image.png">>
    /\ cmd.file = ImageFile(pngSignature \o HeaderTwo \o Record(<<52, 50>>)
                            \o Record(SampleRecord))
    /\ MetaClasses(ret) = {"d"}

(***************************************************************************)
(* runCost                                                                 *)
(***************************************************************************)
\* an inline-data part without bytes, an image in a user turn, two images
ModelTurnEmptyBlob ==
    Content("model", <<Part(FALSE, "text"), Part(TRUE, "blob0")>>)
UserTurnWithImage ==
    Content("user", <<Part(FALSE, "text"), Part(FALSE, "image")>>)
ModelTurnTwoImages ==
    Content("model", <<Part(TRUE, "image"), Part(TRUE, "image")>>)

CostHistories ==
    {<<>>, <<UserTurn>>, <<UserTurn, ModelTurnSigned>>,
     <<UserTurn, ModelTurnPlain>>, <<NilContent, ModelTurnTwoImages>>,
     <<UserTurnWithImage, ModelTurnEmptyBlob>>}

CostSession(m, s, h, u) == File("ok", JSession(m, s, HArray(h), u, FALSE), 1)

\* the session files the cost analyzer is run on
CostFiles ==
    {CostSession(m, s, h, u) :
        m \in {Absent, JString("flash"), JString("flash-2.5"),
               JString("pro-3.0"), JString("turbo")},
        s \in {Absent, JString("2K")},
        h \in CostHistories,
        u \in {UAbsent, UObject(0, 0), UObject(1000, 200)}}
    \cup {NoFile, Corrupt, Unreadable, NoHistory,
          CostSession(JString("pro-3.0"), JString("8K"),
                      <<UserTurn, ModelTurnSigned>>, UNull),
          CostSession(JString("flash"), JString("4K"),
                      <<UserTurn, ModelTurnSigned>>, UObject(0, 200)),
          CostSession(JString("flash"), Absent, <<UserTurn>>, UMistyped)}

CostTrees ==
    {[l \in {CleanDir, CleanDir \o <<NameA>>, CleanDir \o <<NameB>>,
             CleanDir \o <<NameNotes>>, CleanDir \o <<NameSub>>} |->
        CASE l = CleanDir -> d
          [] l = CleanDir \o <<NameA>> -> a
          [] l = CleanDir \o <<NameB>> -> b
          [] l = CleanDir \o <<NameNotes>> -> notes
          [] OTHER -> sub] :
     d \in {Directory, LockedDirectory}, a \in CostFiles,
     b \in {NoFile, Corrupt, Unreadable, NoHistory, ValidFlash, ValidLegacy,
            UnknownModel,
            CostSession(JString("pro-3.0"), Absent,
                        <<UserTurn, ModelTurnTwoImages>>, UObject(1000, 200))},
     notes \in {NoFile, ValidFlash},
     sub \in {NoFile, Directory}}

CostArgs ==
    {<<>>, <<Arg(CleanDir)>>, <<Arg(CleanDir \o <<NameA>>)>>,
     <<Arg(<<"missing">>)>>, <<Arg(CleanDir), Arg(CleanDir)>>}

UsageCost == Errorf(<<"usage: banana cost <session-file-or-directory>">>)

RECURSIVE SumTotal(_, _)
SumTotal(results, i) ==
    IF i > Len(results) THEN 0
    ELSE results[i].cb.Total + SumTotal(results, i + 1)
RECURSIVE SumImages(_, _)
SumImages(results, i) ==
    IF i > Len(results) THEN 0
    ELSE results[i].cb.OutputImages + SumImages(results, i + 1)

\* lines 161-185: the total line
Totals(results) ==
    [sessions |-> Len(results),
     images |-> SumImages(results, 1),
     cost |-> SumTotal(results, 1),
     unpriced |-> Cardinality({k \in 1..Len(results) :
                      results[k].cb.Model \notin DOMAIN modelDefs})]
NoTotals == [sessions |-> 0, images |-> 0, cost |-> 0, unpriced |-> 0]

CostLocals ==
    [mode |-> "", paths |-> <<>>, i |-> 1, results |-> <<>>,
     skipped |-> <<>>, reported |-> FALSE, totals |-> NoTotals]

\* runCost (lines 86-101), runCostFile (103-138) and the listing of
\* runCostDir (140-144)
CostStart ==
    /\ pc = "start"
    /\ IF Len(cmd.args) # 1 THEN Finish(UsageCost) /\ UNCHANGED loc
       ELSE LET target == cmd.args[1].at
                f == At(fs, target)
            IN
            IF ~Exists(f)
            THEN Finish(Errorf(<<"cannot access ", "%q">>)) /\ UNCHANGED loc
            ELSE IF ~IsDir(f)
            THEN LET r == analyzeSession(f, target) IN
                 IF ~r.err.ok
                 THEN Finish(r.err) /\ loc' = [loc EXCEPT !.mode = "file"]
                 ELSE /\ Finish(Nil)
                      /\ loc' = [loc EXCEPT !.mode = "file",
                            !.results = <<[path |-> target, cb |-> r.cb]>>,
                            !.reported = TRUE]
            ELSE IF f.perm = "lockeddir"
            THEN Finish(Errorf(<<"cannot read directory">>))
                 /\ loc' = [loc EXCEPT !.mode = "dir"]
            ELSE /\ pc' = "analyze"
                 /\ loc' = [loc EXCEPT !.mode = "dir",
                                       !.paths = listSessionFiles(fs, target)]
                 /\ UNCHANGED ret
    /\ UNCHANGED <<fs, fs0, cmd, trace>>

CostAnalyze_FailOnError ==
    /\ pc = "analyze"
    /\ loc.i <= Len(loc.paths)
    /\ LET path == loc.paths[loc.i]
           r == analyzeSession(At(fs, path), path)
       IN IF ~r.err.ok
          THEN Finish(r.err) /\ loc' = [loc EXCEPT !.i = @ + 1]
          ELSE /\ loc' = [loc EXCEPT !.i = @ + 1,
                     !.results = Append(@, [path |-> path, cb |-> r.cb])]
               /\ UNCHANGED <<pc, ret>>
    /\ UNCHANGED <<fs, fs0, cmd, trace>>

\* lines 147-154: one pass of the loop over the listed files
CostAnalyze ==
    /\ pc = "analyze"
    /\ loc.i <= Len(loc.paths)
    /\ LET path == loc.paths[loc.i]
           r == analyzeSession(At(fs, path), path)
       IN IF ~r.err.ok
          THEN loc' = [loc EXCEPT !.i = @ + 1, !.skipped = Append(@, path)]
          ELSE loc' = [loc EXCEPT !.i = @ + 1,
                     !.results = Append(@, [path |-> path, cb |-> r.cb])]
    /\ UNCHANGED <<fs, fs0, pc, cmd, ret, trace>>

\* lines 156-187: nothing found, or the lines and the totals
CostReport ==
    /\ pc = "analyze"
    /\ loc.i > Len(loc.paths)
    /\ IF loc.results = <<>> THEN UNCHANGED loc
       ELSE loc' = [loc EXCEPT !.reported = TRUE,
                               !.totals = Totals(loc.results)]
    /\ Finish(Nil)
    /\ UNCHANGED <<fs, fs0, cmd, trace>>

InitCost ==
    /\ fs \in CostTrees
    /\ fs0 = fs
    /\ cmd \in [name : {"cost"}, args : CostArgs]
    /\ pc = "start"
    /\ loc = CostLocals
    /\ ret = Nil
    /\ trace = <<>>

NextCost == CostStart \/ CostAnalyze \/ CostReport

SpecCost == InitCost /\ [][NextCost]_vars

(***************************************************************************)
(* Claims about the cost analyzer                                          *)
(***************************************************************************)
\* the model of a document is not in the definition table once its alias
\* is resolved
Unpriced(raw) == Canonical(Declared(raw)) \notin DOMAIN modelDefs
\* the non-empty binary parts in the model turns of a history
DocImages(h) ==
    Cardinality({x \in (1..Len(h)) \X (1..2) :
                    /\ ~h[x[1]].nil
                    /\ h[x[1]].Role = "model"
                    /\ x[2] <= Len(h[x[1]].Parts)
                    /\ ~h[x[1]].Parts[x[2]].nil
                    /\ h[x[1]].Parts[x[2]].kind = "image"})
\* the files of the directory that runCostDir hands to analyzeSession
CostCandidates ==
    {l \in DOMAIN fs0 : /\ Len(l) = Len(CleanDir) + 1
                        /\ Parent(l) = CleanDir
                        /\ HasSessionSuffix(Base(l))
                        /\ Exists(fs0[l])
                        /\ ~IsDir(fs0[l])}
CostAccepted == {l \in CostCandidates : IsSession(fs0[l])}
Analysed(l) == \E k \in 1..Len(loc.results) : loc.results[k].path = l
DirDone ==
    /\ pc = "done"
    /\ loc.mode = "dir"
    /\ fs0[CleanDir].perm = "dir"
FileDone ==
    /\ pc = "done"
    /\ loc.mode = "file"

RECURSIVE SumF(_, _)
SumF(f, S) ==
    IF S = {} THEN 0
    ELSE LET x == CHOOSE y \in S : TRUE IN f[x] + SumF(f, S \ {x})

(* C21: analyzeSession on a readable session whose model, after alias      *)
(* resolution, is not in the definition table (the empty legacy model      *)
(* included) returns no error and a breakdown with input, output, image    *)
(* and total cost zero that still reports the turn count and the output    *)
(* images, whatever the usage counters are; directory mode counts it as    *)
(* unpriced.                                                               *)
C21_UnpricedIsZeroCost ==
    /\ \A k \in 1..Len(loc.results) :
          LET raw == fs0[loc.results[k].path].raw
              cb == loc.results[k].cb
          IN Unpriced(raw) =>
                /\ cb.InputCost = 0 /\ cb.OutputCost = 0
                /\ cb.ImageCost = 0 /\ cb.Total = 0
                /\ cb.Turns = CeilHalf(Len(raw.history.v))
                /\ cb.OutputImages = DocImages(raw.history.v)
    /\ DirDone =>
          /\ \A l \in CostCandidates :
                (IsSession(fs0[l]) /\ Unpriced(fs0[l].raw)) => Analysed(l)
          /\ loc.reported =>
                loc.totals.unpriced =
                    Cardinality({l \in CostAccepted : Unpriced(fs0[l].raw)})
    /\ (FileDone /\ IsSession(fs0[cmd.args[1].at])
          /\ Unpriced(fs0[cmd.args[1].at].raw)) =>
          ret.ok /\ loc.results # <<>>

C21_Witness ==
    /\ DirDone
    /\ fs0[CleanDir \o <<NameA>>] =
          CostSession(JString("turbo"), JString("2K"),
                      <<NilContent, ModelTurnTwoImages>>, UObject(1000, 200))
    /\ fs0[CleanDir \o <<NameB>>] = ValidLegacy
    /\ Len(loc.results) = 2
    /\ loc.results[1].cb.OutputImages = 2
    /\ loc.results[1].cb.Turns = 1
    /\ loc.results[1].cb.Total = 0
    /\ loc.totals.unpriced = 2

\* a result of a priced session with usage counters and no image in its
\* model turns
TokensOnly(k) ==
    LET raw == fs0[loc.results[k].path].raw IN
    /\ ~Unpriced(raw)
    /\ raw.usage.k = "object"
    /\ DocImages(raw.history.v) = 0

C22_TokenCostsNonzero ==
    \A k \in 1..Len(loc.results) :
        LET cb == loc.results[k].cb IN
        TokensOnly(k) =>
            /\ cb.ImageCost = 0
            /\ cb.InputCost # 0
            /\ cb.OutputCost # 0
            /\ cb.Total = cb.InputCost + cb.OutputCost

(* C22 (amended): for a session whose model is registry-known, whose usage *)
(* counters are present and whose model turns hold no non-empty binary     *)
(* part, the image cost is zero, the input cost is the prompt counter      *)
(* times the model's input price and the output cost the candidate counter *)
(* times its output price (each nonzero exactly when its counter is), and  *)
(* the total is the sum of the two.                                        *)
C22_TokenCostsByCounter ==
    \A k \in 1..Len(loc.results) :
        LET raw == fs0[loc.results[k].path].raw
            cb == loc.results[k].cb
            def == modelDefs[Canonical(Declared(raw))]
        IN TokensOnly(k) =>
            /\ cb.ImageCost = 0
            /\ cb.InputCost = raw.usage.p * def.InputPerMTok
            /\ cb.OutputCost = raw.usage.c * def.OutputPerMTok
            /\ cb.InputCost # 0 <=> raw.usage.p # 0
            /\ cb.OutputCost # 0 <=> raw.usage.c # 0
            /\ cb.Total = cb.InputCost + cb.OutputCost

C22_Witness ==
    /\ FileDone
    /\ fs0[cmd.args[1].at] =
          CostSession(JString("flash"), Absent,
                      <<UserTurnWithImage, ModelTurnEmptyBlob>>,
                      UObject(1000, 200))
    /\ loc.results[1].cb.InputCost = 25000
    /\ loc.results[1].cb.OutputCost = 30000
    /\ loc.results[1].cb.Total = 55000

(* C23: in directory mode runCost succeeds even when some .session.json    *)
(* files are unreadable, malformed or lack history: each such file is      *)
(* skipped, and the session count, the image total and the cost total      *)
(* reported are the sums over exactly the files analyzeSession accepted,   *)
(* the unpriced count being the number of accepted files whose model is    *)
(* not registry-known.                                                     *)
C23_DirectorySumsAccepted ==
    DirDone =>
        /\ ret.ok
        /\ {loc.skipped[k] : k \in 1..Len(loc.skipped)}
              = CostCandidates \ CostAccepted
        /\ {loc.results[k].path : k \in 1..Len(loc.results)} = CostAccepted
        /\ loc.reported <=> CostAccepted # {}
        /\ loc.reported =>
              /\ loc.totals.sessions = Cardinality(CostAccepted)
              /\ loc.totals.images =
                    SumF([l \in CostAccepted |->
                             DocImages(fs0[l].raw.history.v)], CostAccepted)
              /\ loc.totals.cost =
                    SumF([l \in CostAccepted |->
                             analyzeSession(fs0[l], l).cb.Total], CostAccepted)
              /\ loc.totals.unpriced =
                    Cardinality({l \in CostAccepted :
                        Canonical(Declared(fs0[l].raw)) \notin DOMAIN modelDefs})

C23_Witness ==
    /\ DirDone
    /\ fs0[CleanDir \o <<NameA>>] = Corrupt
    /\ fs0[CleanDir \o <<NameB>>] =
          CostSession(JString("pro-3.0"), Absent,
                      <<UserTurn, ModelTurnTwoImages>>, UObject(1000, 200))
    /\ fs0[CleanDir \o <<NameNotes>>] = ValidFlash
    /\ loc.skipped = <<CleanDir \o <<NameA>>>>
    /\ loc.totals = [sessions |-> 1, images |-> 2,
                     cost |-> 200000 + 240000 + 26800000, unpriced |-> 0]

(***************************************************************************)
(* SpecBuild: buildMetadata applied to the options of one run.             *)
(***************************************************************************)
\* spellings of input paths and of the -s path that pass validatePaths
BuildInputs ==
    {Rel(<<NameInPng>>), Rel(<<Dot, NameInPng>>),
     Rel(<<NameD, DotDot, NameInPng>>), Abs(<<NameW, NameInPng>>),
     Rel(<<NameD, EmptyName, NameBigPng>>), Abs(<<NameW, NameD, NameInTxt>>)}
BuildSessions ==
    {NoPath, Rel(<<NameSrcSess>>), Rel(<<NameD, DotDot, NameOutSess>>),
     Abs(<<NameW, NameOutSess>>), Rel(<<DotDot, NameW, NameSrcSess>>)}
BuildHistories ==
    {<<UserTurn>>, <<UserTurn, ModelTurnSigned, UserTurn, ModelTurnSigned>>}

InitBuild ==
    /\ cmd \in [name : {"buildMetadata"},
                opts : {[NoOptions EXCEPT !.model = "flash-3.1",
                             !.modelID = modelDefs["flash-3.1"].ID,
                             !.ratio = "1:1", !.inputs = i, !.session = p] :
                           i \in SeqsUpTo(BuildInputs, MaxInputs), p \in BuildSessions},
                history : BuildHistories]
    /\ pc = "call"
    /\ loc = [op |-> ""]
    /\ ret = Nil
    /\ fs = <<>>
    /\ fs0 = <<>>
    /\ trace = <<>>

BuildMeta ==
    /\ pc = "call"
    /\ pc' = "buildMetadata"
    /\ loc' = [op |-> "buildMetadata",
               meta |-> buildMetadata(cmd.opts, cmd.history)]
    /\ UNCHANGED <<fs, fs0, cmd, ret, trace>>

NextBuild == BuildMeta

SpecBuild == InitBuild /\ [][NextBuild]_vars

\* the final element of a path: its last name that is not empty
FinalElement(p) ==
    LET at == {i \in 1..Len(p.elems) : p.elems[i] # EmptyName}
    IN p.elems[CHOOSE i \in at : \A j \in at : j <= i]
\* the names of the directories a path goes through
DirectoryNames(p) ==
    LET at == {i \in 1..Len(p.elems) : p.elems[i] # EmptyName}
    IN {p.elems[i] : i \in {j \in at : \E k \in at : j < k}}

(* C24: buildMetadata stores for each input path and for the -s path only  *)
(* its final path element: no entry of Inputs and no Session value is or   *)
(* holds a directory of the path, the number and the order of the inputs   *)
(* are kept, and Session is empty when no -s was given.                    *)
C24_BasenamesOnly ==
    pc = "buildMetadata" =>
        LET opts == cmd.opts
            meta == loc.meta
        IN /\ Len(meta.Inputs) = Len(opts.inputs)
           /\ \A i \in 1..Len(opts.inputs) :
                 /\ meta.Inputs[i] = FinalElement(opts.inputs[i])
                 /\ meta.Inputs[i] \notin DirectoryNames(opts.inputs[i])
           /\ opts.session = NoPath => meta.Session = EmptyName
           /\ opts.session # NoPath =>
                 /\ meta.Session = FinalElement(opts.session)
                 /\ meta.Session \notin DirectoryNames(opts.session)

C24_Witness ==
    /\ pc = "buildMetadata"
    /\ cmd.opts.inputs = <<Abs(<<NameW, NameD, NameInTxt>>),
                           Rel(<<NameD, DotDot, NameInPng>>)>>
    /\ cmd.opts.session = Abs(<<NameW, NameOutSess>>)
    /\ loc.meta.Inputs = <<NameInTxt, NameInPng>>
    /\ loc.meta.Session = NameOutSess

(***************************************************************************)
(* Claims about the history handed to a continued run                      *)
(***************************************************************************)
StoredHistory == cmd.file.raw.history.v
Marked(p) == ~p.nil /\ p.signed
HasMarked(c) == \E k \in 1..Len(c.Parts) : Marked(c.Parts[k])
\* the parts of a turn that carry the marker, in their order
MarkedParts(c) ==
    LET at == {k \in 1..Len(c.Parts) : Marked(c.Parts[k])}
        nth(j) == CHOOSE k \in at : Cardinality({x \in at : x < k}) = j - 1
    IN [j \in 1..Cardinality(at) |-> c.Parts[nth(j)]]
\* loadSession has returned a history
Handed == pc = "loadSession" /\ ret.ok /\ ~loc.panic

C25_NoUnmarkedPartInModelTurns ==
    Handed =>
        /\ Len(loc.history.elems) = Len(StoredHistory)
        /\ \A i \in 1..Len(StoredHistory) :
              LET c == loc.history.elems[i] IN
              IF c.Role = "model"
              THEN \A k \in 1..Len(c.Parts) : Marked(c.Parts[k])
              ELSE c = StoredHistory[i]

(* C25 (amended): in the history loadSession hands to the generation call, *)
(* every model turn that holds at least one part with the continuation     *)
(* marker holds only its parts with the marker, in their order; a model    *)
(* turn without any such part and every user turn are passed unchanged.    *)
C25_MarkedTurnsFiltered ==
    Handed =>
        /\ Len(loc.history.elems) = Len(StoredHistory)
        /\ \A i \in 1..Len(StoredHistory) :
              LET c == loc.history.elems[i]
                  stored == StoredHistory[i]
              IN IF stored.Role = "model" /\ HasMarked(stored)
                 THEN /\ c.Role = "model"
                      /\ c.Parts = MarkedParts(stored)
                      /\ \A k \in 1..Len(c.Parts) : Marked(c.Parts[k])
                 ELSE c = stored

C25_Witness ==
    /\ Handed
    /\ StoredHistory = <<UserTurn, ModelTurnSigned, ModelTurnPlain>>
    /\ loc.history.elems =
          <<UserTurn, Content("model", <<Part(TRUE, "image")>>), ModelTurnPlain>>

(* C28: loadSession returns a history or an error for every readable JSON  *)
(* session document and never aborts with a nil dereference, also when the *)
(* history array holds a null entry or a turn holds a null part.           *)
C28_LoadNeverPanics ==
    (pc = "loadSession" /\ IsJSON(cmd.file)) =>
        /\ ~loc.panic
        /\ ret.ok \/ loc.history.nil

(* C30: cleanHistoryForResume keeps the number and the order of the turns, *)
(* leaves every user turn and every model turn without a signed part       *)
(* unchanged, keeps the signed parts of a filtered model turn in their     *)
(* order, and is idempotent.                                               *)
C30_CleanPreservesAndIdempotent ==
    pc = "cleanHistoryForResume" =>
        /\ ~loc.once.panic
        /\ Len(loc.once.history.elems) = Len(StoredHistory)
        /\ \A i \in 1..Len(StoredHistory) :
              LET c == loc.once.history.elems[i]
                  stored == StoredHistory[i]
              IN /\ c.Role = stored.Role
                 /\ (stored.Role # "model" \/ ~HasMarked(stored)) => c = stored
                 /\ (stored.Role = "model" /\ HasMarked(stored)) =>
                       c.Parts = MarkedParts(stored)
        /\ loc.twice = loc.once

\* the same for the histories without a null entry
C30_HoldsWithoutNullEntry ==
    (pc = "cleanHistoryForResume"
       /\ \A i \in 1..Len(StoredHistory) : ~StoredHistory[i].nil) =>
        /\ ~loc.once.panic
        /\ Len(loc.once.history.elems) = Len(StoredHistory)
        /\ \A i \in 1..Len(StoredHistory) :
              LET c == loc.once.history.elems[i]
                  stored == StoredHistory[i]
              IN /\ c.Role = stored.Role
                 /\ (stored.Role # "model" \/ ~HasMarked(stored)) => c = stored
                 /\ (stored.Role = "model" /\ HasMarked(stored)) =>
                       c.Parts = MarkedParts(stored)
        /\ loc.twice = loc.once

(***************************************************************************)
(* Claims about the session a run writes                                   *)
(***************************************************************************)
\* run has returned nil: both files are written
Succeeded == pc = "done" /\ ret.ok /\ cmd.name = "run"
\* the -s source as it was when the run started
SourceFile == Stat(fs0, cmd.args.session)
WrittenSession == At(fs, SessionPlace)
\* the two turns the generation call adds
NewTurns == <<UserTurn, ModelTurnSigned>>

(* C26: filtering for resume never changes what is persisted: after a run  *)
(* that continues from session S the history in the newly written session  *)
(* file begins with the turns of S exactly as S stores them (no part       *)
(* dropped or altered), followed by the new user turn and model turn.      *)
C26_PersistedHistoryUnfiltered ==
    (Succeeded /\ cmd.args.session # NoPath) =>
        /\ WrittenSession.raw.history.k = "array"
        /\ WrittenSession.raw.history.v = SourceFile.raw.history.v \o NewTurns

\* the same for the sources in which every model turn is left as it is
C26_HoldsForUnfilteredSources ==
    (/\ Succeeded
     /\ cmd.args.session # NoPath
     /\ \A i \in 1..Len(SourceFile.raw.history.v) :
           LET c == SourceFile.raw.history.v[i] IN
           c.Role = "model" => (~HasMarked(c) \/ c.Parts = MarkedParts(c))) =>
        WrittenSession.raw.history.v = SourceFile.raw.history.v \o NewTurns

(* C29: the session file of a successful run is stored at                  *)
(* sessionPath(output), its name ends in the session suffix, it records    *)
(* the resolved canonical model name and not the alias given to -m, it is  *)
(* accepted by readSession and validateSessionFile, and loadSession        *)
(* accepts it in a later run that requests the same model.                 *)
C29_WrittenSessionReloads ==
    Succeeded =>
        LET f == WrittenSession
            path == sessionPath(cmd.args.output)
        IN /\ Len(Writes) = 2
           /\ Writes[2] = WriteOp(SessionPlace, TRUE)
           /\ HasSessionSuffix(Base(SessionPlace))
           /\ f = Stat(fs, path)
           /\ Declared(f.raw) = Canonical(cmd.args.model)
           /\ Declared(f.raw) \in DOMAIN modelDefs
           /\ readSession(f, path).err.ok
           /\ validateSessionFile(f, path).err.ok
           /\ \A m \in {cmd.args.model, Canonical(cmd.args.model)} :
                 LET r == loadSession(f, path, Canonical(m)) IN
                 /\ ~r.panic
                 /\ r.err.ok
                 /\ Len(r.history.elems) = Len(f.raw.history.v)

C29_Witness ==
    /\ Succeeded
    /\ cmd.args.model = "flash"
    /\ cmd.args.output = Rel(<<NameOutPNG>>)
    /\ cmd.args.session = Rel(<<NameSrcSess>>)
    /\ SessionPlace = <<NameW, NameOutSess>>
    /\ Declared(WrittenSession.raw) = "flash-3.1"
    /\ Len(WrittenSession.raw.history.v) = 4
    /\ WrittenSession.raw.usage = UObject(1000, 200)

(***************************************************************************)
(* SpecPngSeq: pngSetText called again and again on its own result.        *)
(***************************************************************************)
SeqBuffers ==
    {PlainPng, TaggedPng, CutPng, pngSignature \o HeaderTwo \o TextB,
     pngSignature \o TextB \o Chunk(IEND, <<>>)}
SeqValues == {<<>>, <<118>>, <<119, 0, 120>>}

InitPngSeq ==
    /\ cmd \in [name : {"pngseq"}, data : SeqBuffers]
    /\ pc = "call"
    /\ loc = [data |-> cmd.data, prev |-> cmd.data, sets |-> <<>>]
    /\ ret = Nil
    /\ fs = <<>>
    /\ fs0 = <<>>
    /\ trace = <<>>

\* data = pngSetText(data, key, value), as embedMetadata and the tests do
SeqSet ==
    /\ pc \in {"call", "set"}
    /\ Len(loc.sets) < MaxSets
    /\ \E key \in PngKeys, value \in SeqValues :
          LET r == pngSetText(loc.data, key, value) IN
          IF r.err.ok
          THEN /\ pc' = "set"
               /\ loc' = [data |-> r.result.elems, prev |-> loc.data,
                          sets |-> Append(loc.sets,
                                          [key |-> key, value |-> value])]
               /\ ret' = Nil
          ELSE /\ pc' = "failed"
               /\ ret' = r.err
               /\ UNCHANGED loc
    /\ UNCHANGED <<fs, fs0, cmd, trace>>

NextPngSeq == SeqSet

SpecPngSeq == InitPngSeq /\ [][NextPngSeq]_vars

\* the keys set so far, and the value of the latest set of a key
KeysSet == {loc.sets[i].key : i \in 1..Len(loc.sets)}
LatestValue(k) ==
    LET at == {i \in 1..Len(loc.sets) : loc.sets[i].key = k}
    IN loc.sets[CHOOSE i \in at : \A j \in at : j <= i].value
LatestKey == loc.sets[Len(loc.sets)].key

(* C27: after any sequence of successful pngSetText calls on a PNG,        *)
(* pngGetText(k) returns the value of the most recent pngSetText for k,    *)
(* and a pngSetText for k never changes what pngGetText returns for        *)
(* another key.                                                            *)
C27_LatestSetWins ==
    pc = "set" =>
        /\ \A k \in KeysSet :
              LET g == pngGetText(loc.data, k) IN
              g.err.ok /\ ~g.panic /\ g.value = LatestValue(k)
        /\ \A k \in PngKeys \ {LatestKey} :
              pngGetText(loc.data, k) = pngGetText(loc.prev, k)

\* the same for keys without a zero byte, on buffers whose first chunk is
\* no text chunk
C27_HoldsForPlainKeys ==
    (/\ pc = "set"
     /\ SubSeq(cmd.data, 13, 16) # tEXt
     /\ \A k \in KeysSet : FirstNul(k) = Len(k)) =>
        /\ \A k \in KeysSet :
              LET g == pngGetText(loc.data, k) IN
              g.err.ok /\ ~g.panic /\ g.value = LatestValue(k)
        /\ \A k \in {x \in PngKeys : FirstNul(x) = Len(x)} \ {LatestKey} :
              pngGetText(loc.data, k) = pngGetText(loc.prev, k)

====
